---- MODULE Spec2Model ----
(***************************************************************************)
(* The webhook ingestion and cache-synchronisation pipeline of stripe-sdk: *)
(* createWebhookHandler (src/next/handlers/webhook.ts) running against a   *)
(* payment provider (StripeProvider or createStripeProvider), a KV cache   *)
(* and the upstream payment API.  Every await of the handler is one step.  *)
(* SpecCheckout is the customer-first checkout of StripeProvider            *)
(* (src/providers/stripe/api.ts) and SpecAdapters the KV adapters           *)
(* (src/adapters/memory.ts, src/adapters/upstash.ts), over the same cache.  *)
(***************************************************************************)
EXTENDS Integers, Sequences, FiniteSets, TLC

\* ------------------------------------------------------------ bounds
\* number of times the upstream provider changes an entity in one behaviour
MaxUpstreamChanges == 1
\* number of times the clock advances in one behaviour of the adapters
MaxTicks == 2
\* number of days that pass in one behaviour of the checkout flow
MaxDays == 1

\* ------------------------------------------------- program constants
CheckoutTtl == 3600
CustomerTtl == 86400
SubscriptionTtl == 3600
CanceledTtl == 86400
MsPerSecond == 1000
NoExpiry == 0
StatusOk == 200
StatusUnauthorized == 401
StatusMethodNotAllowed == 405
StatusBadRequest == 400
StatusServerError == 500
SweepIntervalMs == 60000

\* undefined / null
None == "none"

\* ------------------------------------------------------------ universe
\* the deliveries in flight; one handler invocation each
Requests == {"r1", "r2"}
\* the delivery followed when deliveries are processed one at a time
Deliveries == {"r1"}
SessionIds == {"cs_1"}
SubscriptionIds == {"sub_1"}
CustomerIds == {"cus_1"}
Emails == {"a@x.io", "b@x.io"}
UserIds == {"u1"}
SessionStatuses == {"open", "complete"}
SubscriptionStatuses == {"active", "canceled"}

SyncCallbacks == {"onCustomerCreated", "onSubscriptionUpdated", "onSubscriptionCanceled"}
HandlerCallbacks ==
  {"onCheckoutComplete", "onSubscriptionCreated", "onSubscriptionUpdated", "onSubscriptionCanceled"}
\* the adapters and handler sets a handler is created with: none, a partial one, a full one
SyncConfigs == {{}, {"onSubscriptionUpdated"}, SyncCallbacks}
HandlerConfigs == {{}, {"onCheckoutComplete", "onSubscriptionCanceled"}, HandlerCallbacks}

HandledTypes ==
  {"checkout.session.completed", "customer.subscription.created", "customer.subscription.updated",
   "customer.subscription.deleted", "customer.subscription.canceled"}
CanceledTypes == {"customer.subscription.deleted", "customer.subscription.canceled"}
EventTypes == HandledTypes \cup {"payment_intent.succeeded", "invoice.payment_succeeded"}

\* Entities are immutable snapshots; one record shape serves all kinds, with the
\* fields a kind does not have left at None / "".
Entity(kind, id, customerId, status, email, userId) ==
  [kind |-> kind, id |-> id, customerId |-> customerId, status |-> status,
   email |-> email, userId |-> userId]
NoEntity == Entity(None, None, None, None, "", None)
\* a bare id stored as a cache value (secondary index entries)
IdRef(id) == Entity("id", id, None, None, "", None)

\* The raw object embedded in an event: it names the entity and claims a state
\* that need not be the entity's current one.
Payloads(type) ==
  IF type = "checkout.session.completed"
    THEN {Entity("checkout", id, None, s, "", None) :
            id \in SessionIds, s \in SessionStatuses}
  ELSE IF type \in HandledTypes
    THEN {Entity("subscription", id, c, s, "", None) :
            id \in SubscriptionIds, c \in CustomerIds, s \in SubscriptionStatuses}
  ELSE {Entity("payment_intent", "pi_1", None, "succeeded", "", None)}

WebhookEvents == UNION {{[type |-> t, data |-> d] : d \in Payloads(t)} : t \in EventTypes}
NoEvent == [type |-> None, data |-> NoEntity]

\* The inbound request: its method, whether its body stream can still be read, and
\* its stripe-signature header ("good" when it is the endpoint's HMAC of the body).
\* The event the body holds is drawn when constructEvent parses it.
HttpRequests ==
  [method : {"POST", "GET"}, body : {"readable", "unreadable"}, signature : {None, "good", "bad"}]
NoRequest == [method |-> None, body |-> None, signature |-> None]

Response(status, body) == [status |-> status, body |-> body]
NoResponse == Response(0, None)

VARIABLES
  provider,       \* [kind, webhookSecret]: the PaymentProvider given to the handler
  env,            \* process.env.STRIPE_SECRET_KEY
  sync,           \* the callbacks the sync adapter exposes
  handlers,       \* the user handlers configured
  upSession,      \* upstream: checkout sessions
  upSubscription, \* upstream: subscriptions
  upCustomer,     \* upstream: customers
  nchanges,       \* upstream changes so far
  storage,        \* the cache: key -> [value, expiresAt]
  now,            \* Date.now()
  pc,             \* per request: position in the handler
  request,        \* per request: the inbound HTTP request
  event,          \* per request: the verified event
  idx,            \* per request: position in the event's branch
  latestData,     \* per request: local latestData
  customer,       \* per request: local customer (cache block)
  syncCustomer,   \* per request: local customer (sync block)
  response,       \* per request: the response returned
  log,            \* per request: history of the effects of the request
  checkout,       \* per createCheckout call: options, position, locals, result, effects
  stripeCustomers,\* upstream: the customers created by stripe.customers.create
  stripeSessions, \* upstream: the sessions created by stripe.checkout.sessions.create
  nticks,         \* clock advances so far
  nextSweep,      \* the time the cleanup interval of the memory adapter fires next
  lastOp,         \* the last get (Upstash: the last operation) and what it returned
  history,        \* per key: the last set and delete the client made
  redisCalls,     \* the calls the last Upstash adapter operation made to the Redis client
  adapter,        \* which adapter the client uses directly
  sessionParams,  \* the options createCheckoutSession was given and the params it sent
  hook,           \* the React hook: its useState values, its abortControllerRef, its options
  hookOps,        \* per operation started on the hook: position, AbortController, response
  hookLog,        \* the callbacks the hook invoked, in order
  location        \* window.location.href

cfgVars == <<provider, env, sync, handlers>>
upVars == <<upSession, upSubscription, upCustomer, nchanges>>
reqVars == <<pc, request, event, idx, latestData, customer, syncCustomer, response, log>>
coVars == <<checkout, stripeCustomers, stripeSessions>>
kvVars == <<nticks, nextSweep, lastOp, history, redisCalls, adapter>>
extVars == <<sessionParams, hook, hookOps, hookLog, location>>
vars == <<cfgVars, upVars, storage, now, reqVars, coVars, kvVars, extVars>>

\* one effect of a request: what was done, on what, with which entity
LogEntry(op, name, val, ttl) == [op |-> op, name |-> name, val |-> val, ttl |-> ttl]

\* ------------------------------------------------------- configuration
\* process.env.STRIPE_SECRET_KEY: absent, malformed, or a well-formed key
SecretKeys == {None, "rk_test_key", "sk_test_key"}
\* the provider's webhook secret: absent, without the whsec_ prefix, well-formed
\* but not the endpoint's signing secret, or the endpoint's signing secret
WebhookSecrets == {None, "malformed", "whsec_other", "whsec_endpoint"}
ProviderKinds == {"StripeProvider", "createStripeProvider"}

StartsWithSk(key) == key \in {"sk_test_key", "sk_live_key"}
StartsWithWhsec(secret) == secret \in {"whsec_other", "whsec_endpoint"}

\* loadStripeConfig(): "ok", or the error it throws
loadStripeConfig(secretKey) ==
  IF secretKey = None THEN "ConfigError"
  ELSE IF ~StartsWithSk(secretKey) THEN "ConfigError"
  ELSE "ok"

\* validateWebhookSecret(config, required)
validateWebhookSecret(secret, required) ==
  IF required /\ secret = None THEN "ConfigError"
  ELSE IF secret # None /\ ~StartsWithWhsec(secret) THEN "ConfigError"
  ELSE "ok"

\* stripe.webhooks.constructEvent: the signature is an HMAC of the payload under
\* the endpoint's signing secret
constructEvent(signature, secret) ==
  IF signature = "good" /\ secret = "whsec_endpoint" THEN "event" ELSE "StripeSignatureVerificationError"

\* verifyWebhookSignature (providers/stripe/webhooks.ts)
verifyWebhookSignature(signature, secret) ==
  IF secret = None THEN "WebhookError"
  ELSE IF signature = None THEN "WebhookError"
  ELSE IF constructEvent(signature, secret) = "event" THEN "event"
  ELSE "WebhookError"

\* StripeProvider.verifyWebhook
StripeProviderVerifyWebhook(signature, secret) ==
  IF secret = None THEN "WebhookError" ELSE verifyWebhookSignature(signature, secret)

\* createStripeProvider(...).verifyWebhook: validateWebhookSecret runs outside
\* the try block
FactoryVerifyWebhook(signature, secret) ==
  IF validateWebhookSecret(secret, TRUE) # "ok" THEN validateWebhookSecret(secret, TRUE)
  ELSE IF constructEvent(signature, secret) = "event" THEN "event"
  ELSE "WebhookError"

\* provider.verifyWebhook(body, signature): "event", or the class of the error thrown
verifyWebhook(prov, signature) ==
  IF prov.kind = "StripeProvider"
    THEN StripeProviderVerifyWebhook(signature, prov.webhookSecret)
    ELSE FactoryVerifyWebhook(signature, prov.webhookSecret)

\* ------------------------------------------------------------ upstream
\* stripe.checkout.sessions.retrieve + the mapping of fetchLatestCheckoutSession
fetchLatestCheckoutSession(sessionId) ==
  Entity("checkout", sessionId, upSession[sessionId].customerId,
         upSession[sessionId].status, "", None)

\* stripe.subscriptions.retrieve + the mapping of fetchLatestSubscription
fetchLatestSubscription(subscriptionId) ==
  Entity("subscription", subscriptionId, upSubscription[subscriptionId].customerId,
         upSubscription[subscriptionId].status, "", None)

\* stripe.customers.retrieve + the mapping of fetchLatestCustomer (not deleted)
fetchLatestCustomer(customerId) ==
  Entity("customer", customerId, None, None,
         upCustomer[customerId].email, upCustomer[customerId].userId)

\* --------------------------------------------------------------- cache
\* memory adapter set(): the entry stored for (value, ttlSeconds)
StorageEntry(value, ttlSeconds) ==
  IF ttlSeconds > 0
    THEN [value |-> value, expiresAt |-> now + ttlSeconds * MsPerSecond]
    ELSE [value |-> value, expiresAt |-> NoExpiry]

\* a set that keeps the entry a key already has
CacheSetIfAbsent(store, key, value, ttlSeconds) ==
  [k \in DOMAIN store \cup {key} |->
     IF k = key /\ k \notin DOMAIN store THEN StorageEntry(value, ttlSeconds) ELSE store[k]]

CacheSet(store, key, value, ttlSeconds) ==
  [k \in DOMAIN store \cup {key} |->
     IF k = key THEN StorageEntry(value, ttlSeconds) ELSE store[k]]

\* the optional ttlSeconds argument of KVAdapter.set
Seconds(n) == [given |-> TRUE, seconds |-> n]
NoTtl == [given |-> FALSE, seconds |-> 0]

\* a set that gives every entry written with a ttlSeconds argument an expiry
HasTtlWhenGiven(ttl) == ttl.given

\* if (ttlSeconds && ttlSeconds > 0)
HasTtl(ttl) == ttl.given /\ ttl.seconds # 0 /\ ttl.seconds > 0

\* memory adapter set(key, value, ttlSeconds) at time t
MemoryEntry(value, ttl, t) ==
  IF HasTtl(ttl)
    THEN [value |-> value, expiresAt |-> t + ttl.seconds * MsPerSecond]
    ELSE [value |-> value, expiresAt |-> NoExpiry]

\* a set that keeps the later of the old and the new expiry of a key
MemorySetKeepingExpiry(store, key, value, ttl, t) ==
  [k \in DOMAIN store \cup {key} |->
     IF k # key THEN store[k]
     ELSE IF key \in DOMAIN store /\ store[key].expiresAt > MemoryEntry(value, ttl, t).expiresAt
       THEN [value |-> value, expiresAt |-> store[key].expiresAt]
       ELSE MemoryEntry(value, ttl, t)]

MemorySet(store, key, value, ttl, t) ==
  [k \in DOMAIN store \cup {key} |->
     IF k = key THEN MemoryEntry(value, ttl, t) ELSE store[k]]

\* an expiry test that is never true
ExpiredNever(entry, t) == FALSE

\* an expiry test that counts the deadline itself as expired
ExpiredAtDeadline(entry, t) == entry.expiresAt # NoExpiry /\ entry.expiresAt <= t

\* entry.expiresAt && entry.expiresAt < Date.now()
Expired(entry, t) == entry.expiresAt # NoExpiry /\ entry.expiresAt < t

\* memory adapter get(key) at time t: the value returned (null when absent or
\* expired) and the store it leaves
MemoryGetValue(store, key, t, null) ==
  IF key \notin DOMAIN store THEN null
  ELSE IF Expired(store[key], t) THEN null
  ELSE store[key].value

MemoryGetStore(store, key, t) ==
  IF key \in DOMAIN store /\ Expired(store[key], t)
    THEN [k \in DOMAIN store \ {key} |-> store[k]]
    ELSE store

\* a delete that clears the store
MemoryDeleteAll(store, key) == << >>

\* memory adapter delete(key)
MemoryDelete(store, key) == [k \in DOMAIN store \ {key} |-> store[k]]

\* a cleanup that also removes the entries whose deadline is the present instant
MemorySweepAtDeadline(store, t) ==
  [k \in {j \in DOMAIN store : ~ExpiredAtDeadline(store[j], t)} |-> store[k]]

\* the callback of the cleanup interval
MemorySweep(store, t) ==
  [k \in {j \in DOMAIN store : ~Expired(store[j], t)} |-> store[k]]

\* Upstash adapter set: the options passed to redis.set (ex = 0 for none)
UpstashSetOptions(ttl) ==
  IF HasTtl(ttl) THEN [withEx |-> TRUE, ex |-> ttl.seconds] ELSE [withEx |-> FALSE, ex |-> 0]

\* JavaScript values as the Upstash adapter sees them: the typeof of the value
\* and its JSON text (for a string: the characters of the string)
Str(text) == [type |-> "string", repr |-> text]
Num(text) == [type |-> "number", repr |-> text]
Bool(text) == [type |-> "boolean", repr |-> text]
Obj(text) == [type |-> "object", repr |-> text]
Null == [type |-> "null", repr |-> "null"]
Void == [type |-> "undefined", repr |-> ""]

\* the values a client stores through the Upstash adapter
UpstashValues ==
  {Str("hello"), Str("123"), Str(""), Num("123"), Bool("true"), Obj("{\"id\":\"cus_1\"}")}

\* JSON.stringify(value)
JsonStringify(v) == IF v.type = "string" THEN ("\"" \o v.repr) \o "\"" ELSE v.repr

\* JSON.parse(text): the value whose JSON text it is; ok is FALSE when it throws
JsonParse(text) ==
  IF \E v \in UpstashValues \cup {Null} : JsonStringify(v) = text
    THEN [ok |-> TRUE,
          value |-> CHOOSE v \in UpstashValues \cup {Null} : JsonStringify(v) = text]
    ELSE [ok |-> FALSE, value |-> Void]

\* typeof value === 'string' ? value : JSON.stringify(value)
Serialize(v) == IF v.type = "string" THEN v.repr ELSE JsonStringify(v)

\* Upstash adapter get: what it returns for the text the store returned
Deserialize(text) ==
  IF JsonParse(text).ok THEN JsonParse(text).value ELSE Str(text)

\* an adapter that lets the error of the Redis client through
TransportError(op, key) == [type |-> "error", repr |-> "fetch failed"]

\* new Error(`Failed to <op> key "<key>" ... Upstash: ...`)
UpstashError(op, key) ==
  [type |-> "error", repr |-> ((("Failed to " \o op) \o " key \"") \o key) \o "\""]

\* a call of the Redis client
RedisCall(op, key, value, ttl) ==
  [op |-> op, key |-> key, value |-> value, ttl |-> ttl, options |-> UpstashSetOptions(ttl)]
\* ---------------------------------------------------- the event branches
\* One step per await of a branch, in the order of the source.
Step(op, arg, ttl) == [op |-> op, arg |-> arg, ttl |-> ttl]

\* the checkout branch with the customer entries given the session's lifetime
CheckoutStepsShortCustomerTtl ==
  << Step("fetchEntity", "checkout", 0),
     Step("set", "checkout:", CheckoutTtl),
     Step("fetchCustomer", "cache", 0),
     Step("set", "customer:", CheckoutTtl),
     Step("set", "customer:email:", CheckoutTtl),
     Step("set", "customer:userId:", CheckoutTtl),
     Step("fetchCustomer", "sync", 0),
     Step("sync", "onCustomerCreated", 0),
     Step("handler", "onCheckoutComplete", 0) >>

\* the checkout branch with the user handler called as soon as the session is
\* cached, before the customer is fetched
CheckoutStepsHandlerFirst ==
  << Step("fetchEntity", "checkout", 0),
     Step("set", "checkout:", CheckoutTtl),
     Step("handler", "onCheckoutComplete", 0),
     Step("fetchCustomer", "cache", 0),
     Step("set", "customer:", CustomerTtl),
     Step("set", "customer:email:", CustomerTtl),
     Step("set", "customer:userId:", CustomerTtl),
     Step("fetchCustomer", "sync", 0),
     Step("sync", "onCustomerCreated", 0) >>

CheckoutSteps ==
  << Step("fetchEntity", "checkout", 0),
     Step("set", "checkout:", CheckoutTtl),
     Step("fetchCustomer", "cache", 0),
     Step("set", "customer:", CustomerTtl),
     Step("set", "customer:email:", CustomerTtl),
     Step("set", "customer:userId:", CustomerTtl),
     Step("fetchCustomer", "sync", 0),
     Step("sync", "onCustomerCreated", 0),
     Step("handler", "onCheckoutComplete", 0) >>

\* the subscription-created branch without the write of the per-customer index
SubscriptionCreatedStepsNoIndex ==
  << Step("fetchEntity", "subscription", 0),
     Step("set", "subscription:", SubscriptionTtl),
     Step("sync", "onSubscriptionUpdated", 0),
     Step("handler", "onSubscriptionCreated", 0) >>

SubscriptionCreatedSteps ==
  << Step("fetchEntity", "subscription", 0),
     Step("set", "subscription:", SubscriptionTtl),
     Step("set", "subscription:customer:", SubscriptionTtl),
     Step("sync", "onSubscriptionUpdated", 0),
     Step("handler", "onSubscriptionCreated", 0) >>

\* the subscription-updated branch with the sync adapter called before the
\* secondary index is written
SubscriptionUpdatedStepsSyncEarly ==
  << Step("fetchEntity", "subscription", 0),
     Step("set", "subscription:", SubscriptionTtl),
     Step("sync", "onSubscriptionUpdated", 0),
     Step("set", "subscription:customer:", SubscriptionTtl),
     Step("handler", "onSubscriptionUpdated", 0) >>

SubscriptionUpdatedSteps ==
  << Step("fetchEntity", "subscription", 0),
     Step("set", "subscription:", SubscriptionTtl),
     Step("set", "subscription:customer:", SubscriptionTtl),
     Step("sync", "onSubscriptionUpdated", 0),
     Step("handler", "onSubscriptionUpdated", 0) >>

SubscriptionCanceledSteps ==
  << Step("fetchEntity", "subscription", 0),
     Step("set", "subscription:", CanceledTtl),
     Step("sync", "onSubscriptionCanceled", 0),
     Step("handler", "onSubscriptionCanceled", 0) >>

\* a chain that matches event types by prefix: every other type falls into the
\* subscription-updated branch
StepsForByPrefix(eventType) ==
  IF eventType = "checkout.session.completed" THEN CheckoutSteps
  ELSE IF eventType = "customer.subscription.created" THEN SubscriptionCreatedSteps
  ELSE IF eventType = "customer.subscription.deleted"
          \/ eventType = "customer.subscription.canceled" THEN SubscriptionCanceledSteps
  ELSE SubscriptionUpdatedSteps

\* the if / else-if chain on event.type; the final else has no step
StepsFor(eventType) ==
  IF eventType = "checkout.session.completed" THEN CheckoutSteps
  ELSE IF eventType = "customer.subscription.created" THEN SubscriptionCreatedSteps
  ELSE IF eventType = "customer.subscription.updated" THEN SubscriptionUpdatedSteps
  ELSE IF eventType = "customer.subscription.deleted"
          \/ eventType = "customer.subscription.canceled" THEN SubscriptionCanceledSteps
  ELSE << >>

\* the conditions guarding a step, over the handler's locals
StepApplies(st, ld, cust, syncCbs, handlerCbs) ==
  IF st.op = "fetchCustomer" /\ st.arg = "cache" THEN ld.customerId # None
  ELSE IF st.op = "set" /\ st.arg = "customer:" THEN ld.customerId # None
  ELSE IF st.op = "set" /\ st.arg = "customer:email:"
    THEN ld.customerId # None /\ cust.email # ""
  ELSE IF st.op = "set" /\ st.arg = "customer:userId:"
    THEN ld.customerId # None /\ cust.userId # None
  ELSE IF st.op = "fetchCustomer" /\ st.arg = "sync"
    THEN "onCustomerCreated" \in syncCbs /\ ld.customerId # None
  ELSE IF st.op = "sync" /\ st.arg = "onCustomerCreated"
    THEN "onCustomerCreated" \in syncCbs /\ ld.customerId # None
  ELSE IF st.op = "sync" THEN st.arg \in syncCbs
  ELSE IF st.op = "handler" THEN st.arg \in handlerCbs
  ELSE TRUE

\* the index of the first step after i that applies; Len(steps) + 1 when none does
RECURSIVE NextStep(_, _, _, _, _, _)
NextStep(steps, i, ld, cust, syncCbs, handlerCbs) ==
  IF i + 1 > Len(steps) THEN Len(steps) + 1
  ELSE IF StepApplies(steps[i + 1], ld, cust, syncCbs, handlerCbs) THEN i + 1
  ELSE NextStep(steps, i + 1, ld, cust, syncCbs, handlerCbs)

\* whether the upstream provider has an entity of this kind and id
KnownUpstream(kind, id) ==
  IF kind = "checkout" THEN id \in SessionIds ELSE id \in SubscriptionIds

\* the payload of the event taken as the entity's state
TrustEventPayload(kind, data) == data

\* the entity refetched for an event: only the id of the payload is read
RefetchEventEntity(kind, data) ==
  IF kind = "checkout" THEN fetchLatestCheckoutSession(data.id)
  ELSE fetchLatestSubscription(data.id)

\* cache.set(key, value, ttl) of a "set" step
SetKey(prefix, ld, cust) ==
  IF prefix = "checkout:" THEN "checkout:" \o ld.id
  ELSE IF prefix = "customer:" THEN "customer:" \o cust.id
  ELSE IF prefix = "customer:email:" THEN "customer:email:" \o cust.email
  ELSE IF prefix = "customer:userId:" THEN "customer:userId:" \o cust.userId
  ELSE IF prefix = "subscription:" THEN "subscription:" \o ld.id
  ELSE "subscription:customer:" \o ld.customerId

SetValue(prefix, ld, cust) ==
  IF prefix = "checkout:" THEN ld
  ELSE IF prefix = "customer:" THEN cust
  ELSE IF prefix = "customer:email:" THEN cust
  ELSE IF prefix = "customer:userId:" THEN IdRef(cust.id)
  ELSE IF prefix = "subscription:" THEN ld
  ELSE IdRef(ld.id)

\* the argument of a callback
CallbackArg(op, name, ld, syncCust) ==
  IF op = "sync" /\ name = "onCustomerCreated" THEN syncCust ELSE ld
\* ------------------------------------------- the customer-first checkout
Calls == {"c1", "c2"}
CheckoutUserIds == {"u1", "u2"}
\* CheckoutOptions: metadata.userId, customerEmail and customerId, each optional
CheckoutOptions ==
  [userId : CheckoutUserIds \cup {None}, customerEmail : Emails \cup {None},
   customerId : {None, "cus_req"}]
NoOptions == [userId |-> None, customerEmail |-> None, customerId |-> None]

\* what a call returned or threw
NoResult == [class |-> None, code |-> None, status |-> 0]
Returned == [class |-> "session", code |-> None, status |-> 0]
PaymentError(code, status) == [class |-> "PaymentError", code |-> code, status |-> status]

NoCall ==
  [pc |-> "idle", options |-> NoOptions, customerId |-> None, session |-> NoEntity,
   result |-> NoResult, log |-> << >>, after |-> {}, returned |-> NoEntity]

\* the ids the upstream provider gives to what it creates
NewCustomerId(n) == <<"cus_n1", "cus_n2">>[n]
NewSessionId(n) == <<"cs_n1", "cs_n2">>[n]

\* a validation that only requires the user id
ValidRequestUserIdOnly(options) == options.userId # None

\* if (!userId) throw ...; if (!options.customerEmail) throw ...
ValidRequest(options) == options.userId # None /\ options.customerEmail # None

\* a lookup keyed by the email of the request
CacheKeyByEmail(options) == "customer:email:" \o options.customerEmail

\* const cacheKey = `customer:userId:${userId}`
CacheKey(options) == "customer:userId:" \o options.userId

\* identity mappings written with the lifetime of a customer snapshot
IdentityTtlOneDay == Seconds(CustomerTtl)

\* cache.set(cacheKey, customerId): no ttlSeconds argument
IdentityTtl == NoTtl

\* the spread with the request's own customerId winning
CheckoutOptionsRequestWins(options, customerId) ==
  IF options.customerId # None THEN options ELSE [options EXCEPT !.customerId = customerId]

\* const checkoutOptions = { ...options, customerId, metadata: { userId, ... } }
CheckoutOptionsFor(options, customerId) == [options EXCEPT !.customerId = customerId]

\* createCheckoutSession: the customer / customer_email / metadata it sends
SessionParams(options) ==
  IF options.customerId # None
    THEN [customer |-> options.customerId, customer_email |-> None, userId |-> options.userId]
  ELSE IF options.customerEmail # None
    THEN [customer |-> None, customer_email |-> options.customerEmail, userId |-> options.userId]
  ELSE [customer |-> None, customer_email |-> None, userId |-> options.userId]

\* CheckoutOptions.trialDays
Days(n) == [given |-> TRUE, days |-> n]
NoTrial == [given |-> FALSE, days |-> 0]

\* CheckoutOptions.mode, "none" when omitted
Modes == {"payment", "subscription", "setup"}

\* the requests the session parameters are computed for: userId and email given
\* (createCheckout has validated them), every mode and trial period
SessionRequests ==
  [userId : CheckoutUserIds, customerEmail : Emails, customerId : {None, "cus_req"},
   mode : Modes \cup {None}, trialDays : {NoTrial, Days(0), Days(7)}]

\* if (options.mode === 'subscription' && options.trialDays)
\*   sessionParams.subscription_data = { trial_period_days, metadata: options.metadata }
SubscriptionData(options) ==
  IF options.mode = "subscription" /\ options.trialDays.given /\ options.trialDays.days # 0
    THEN [given |-> TRUE, trial_period_days |-> options.trialDays.days, userId |-> options.userId]
    ELSE [given |-> FALSE, trial_period_days |-> 0, userId |-> None]

\* the SessionCreateParams createCheckoutSession builds
SessionCreateParams(options) ==
  [mode |-> IF options.mode = None THEN "subscription" ELSE options.mode,
   customer |-> SessionParams(options).customer,
   customer_email |-> SessionParams(options).customer_email,
   metadata |-> [userId |-> SessionParams(options).userId],
   subscription_data |-> SubscriptionData(options)]

NoSessionRequest ==
  [userId |-> None, customerEmail |-> None, customerId |-> None, mode |-> None,
   trialDays |-> NoTrial]
NoSessionParams ==
  [built |-> FALSE, request |-> NoSessionRequest,
   params |-> SessionCreateParams(NoSessionRequest)]

\* ------------------------------------------------------ the React hooks
MaxOps == 2
OpIds == 1..MaxOps
HookKinds == {"useCheckout", "useSubscription", "useCustomer"}

\* data.session / data.subscription of a body that has no such field
Undefined == Entity("undefined", None, None, None, "", None)
\* the url of a checkout session
UrlOf(id) == "https://checkout.stripe.com/" \o id
InitialLocation == "https://app.example/"

\* a fetch Response: ok is status in 200..299; the JSON body has the fields
\* named in `fields`
HttpResponse(status, fields, entity, message) ==
  [status |-> status, fields |-> fields, entity |-> entity, message |-> message]
NoHttpResponse == HttpResponse(0, {}, NoEntity, None)
ResponseOk(resp) == resp.status >= 200 /\ resp.status <= 299
\* the promise of fetch rejected (network error, or AbortError)
Rejected == HttpResponse(0, {}, NoEntity, "fetch failed")

\* a body that wraps the session: { session }
CreateCheckoutResponseWithSession(session) ==
  HttpResponse(StatusOk, {"session"}, session, None)

\* createCheckoutHandler on success: { url: session.url, sessionId: session.id }
CreateCheckoutResponse(session) ==
  HttpResponse(StatusOk, {"url", "sessionId"}, session, None)

\* createCheckoutHandler on a PaymentError or any other error
CheckoutErrorResponses ==
  {HttpResponse(StatusBadRequest, {"error", "message"}, NoEntity, "INVALID_REQUEST"),
   HttpResponse(StatusServerError, {"error", "message"}, NoEntity, "PAYMENT_FAILED")}

HookSession == Entity("checkout", "cs_n1", "cus_n1", "open", "", "u1")
HookSubscriptions ==
  {Entity("subscription", "sub_1", "cus_1", st, "", None) : st \in SubscriptionStatuses}
HookCustomers == {Entity("customer", "cus_1", None, None, e, "u1") : e \in {"a@x.io"}}

StatusNotFound == 404

\* what the route a hook calls may answer
ResponsesFor(kind) ==
  IF kind = "useCheckout"
    THEN {CreateCheckoutResponse(HookSession), CreateCheckoutResponseWithSession(HookSession)}
           \cup CheckoutErrorResponses
  ELSE IF kind = "useSubscription"
    THEN {HttpResponse(StatusOk, {"subscription"}, e, None) : e \in HookSubscriptions \cup {NoEntity}}
           \cup {HttpResponse(StatusNotFound, {"error"}, NoEntity, "Not Found"),
                 HttpResponse(StatusServerError, {"error"}, NoEntity, "Internal Server Error")}
  ELSE {HttpResponse(StatusOk, {"customer"}, e, None) : e \in HookCustomers \cup {NoEntity}}
         \cup {HttpResponse(StatusNotFound, {"error"}, NoEntity, "Not Found"),
               HttpResponse(StatusServerError, {"error"}, NoEntity, "Internal Server Error")}

\* the operations a hook offers that send a request
OpNames(kind) == IF kind = "useCheckout" THEN {"checkout"} ELSE {"fetch", "refresh"}

NoOp == [name |-> None, pc |-> "unused", aborted |-> FALSE, response |-> NoHttpResponse]
NoHook ==
  [kind |-> None, mounted |-> FALSE, value |-> NoEntity, error |-> None, isLoading |-> FALSE,
   ref |-> 0, hasIds |-> FALSE, started |-> 0]

\* no hook is rendered
HooksUnused ==
  /\ hook = NoHook
  /\ hookOps = [o \in OpIds |-> NoOp]
  /\ hookLog = << >>
  /\ location = InitialLocation

\* no session parameters have been built, no hook is rendered
ExtUnused == sessionParams = NoSessionParams /\ HooksUnused

\* no createCheckout call has been made
NoCheckoutCalls ==
  /\ checkout = [c \in Calls |-> NoCall]
  /\ stripeCustomers = << >>
  /\ stripeSessions = << >>

\* the keys, values and ttlSeconds arguments a client of an adapter uses
Keys == {"k1", "k2"}
Values == {"v1", "v2"}
TtlArgs == {NoTtl} \cup {Seconds(n) : n \in {-1, 0, 1, 2}}
\* the sets a client of the Upstash adapter makes: every value on k1, every
\* lifetime on k2
UpstashSetArgs ==
  {[key |-> "k1", value |-> v, ttl |-> NoTtl] : v \in UpstashValues}
    \cup {[key |-> "k2", value |-> Str("hello"), ttl |-> ttl] : ttl \in TtlArgs}
\* the sets the client makes: every value and lifetime on k1; k2 is a bystander
\* that is only ever given one permanent and one expiring value
SetArgs ==
  {[key |-> "k1", value |-> v, ttl |-> ttl] : v \in Values, ttl \in TtlArgs}
    \cup {[key |-> "k2", value |-> "v1", ttl |-> ttl] : ttl \in {NoTtl, Seconds(1)}}

\* what the client did last with a key: whether it is set or deleted, the value,
\* the time and the effective lifetime (0: none) of the last set, and what kind
\* of entry that set replaced
NoHistory == [state |-> "never", value |-> None, at |-> 0, seconds |-> 0, over |-> "nothing"]
NoGet == [key |-> None, result |-> None]

\* the adapters have not been used directly, the clock has not advanced
AdaptersUnused ==
  /\ nticks = 0
  /\ nextSweep = MsPerSecond + SweepIntervalMs
  /\ lastOp = NoGet
  /\ history = [k \in Keys |-> NoHistory]
  /\ redisCalls = << >>
  /\ adapter = None

\* ---------------------------------------------------------------- Init
\* what the cache holds when the request arrives: nothing, or the snapshot an
\* earlier event left under subscription:sub_1
InitialStorages ==
  { << >>,
    [k \in {"subscription:sub_1"} |->
       [value |-> Entity("subscription", "sub_1", "cus_1", "canceled", "", None),
        expiresAt |-> SubscriptionTtl * MsPerSecond]] }

\* the providers whose construction succeeds: new StripeProvider(options) and
\* createStripeProvider(options) both run loadStripeConfig(options.config), which
\* checks the secret key and copies the webhook secret unchecked
ConstructedProviders ==
  {[kind |-> k, webhookSecret |-> w] :
     k \in ProviderKinds,
     w \in {ws \in WebhookSecrets : \E sk \in SecretKeys : loadStripeConfig(sk) = "ok"}}

Init ==
  /\ provider \in ConstructedProviders
  /\ env \in SecretKeys
  /\ sync \in SyncConfigs
  /\ handlers \in HandlerConfigs
  /\ upSession = [id \in SessionIds |-> [status |-> "complete", customerId |-> "cus_1"]]
  /\ upSubscription = [id \in SubscriptionIds |-> [status |-> "active", customerId |-> "cus_1"]]
  /\ upCustomer = [id \in CustomerIds |-> [email |-> "a@x.io", userId |-> "u1", deleted |-> FALSE]]
  /\ nchanges = 0
  /\ now = MsPerSecond
  /\ storage \in InitialStorages
  /\ pc = [r \in Requests |-> "idle"]
  /\ request = [r \in Requests |-> NoRequest]
  /\ event = [r \in Requests |-> NoEvent]
  /\ idx = [r \in Requests |-> 0]
  /\ latestData = [r \in Requests |-> NoEntity]
  /\ customer = [r \in Requests |-> NoEntity]
  /\ syncCustomer = [r \in Requests |-> NoEntity]
  /\ response = [r \in Requests |-> NoResponse]
  /\ log = [r \in Requests |-> << >>]
  /\ NoCheckoutCalls
  /\ ExtUnused
  /\ AdaptersUnused

\* ------------------------------------------------------------ responses
\* a method check that lets every method through
MethodAllowedAny(method) == method \in {"POST", "GET"}

\* if (request.method !== 'POST')
MethodAllowed(method) == method = "POST"

\* if (!signature)
SignaturePresent(signature) == signature # None

\* the outer catch of the handler: the response for an error of class errClass
CatchResponse(errClass) ==
  IF errClass = "WebhookError"
    THEN Response(StatusUnauthorized, "WEBHOOK_SIGNATURE_INVALID")
    ELSE Response(StatusOk, "received, Handler error logged")

\* the inner catch around provider.verifyWebhook: WebhookError is answered 401,
\* anything else is rethrown to the outer catch
VerifyFailureResponse(errClass) ==
  IF errClass = "WebhookError"
    THEN Response(StatusUnauthorized, "WEBHOOK_SIGNATURE_INVALID")
    ELSE CatchResponse(errClass)

Acknowledged == Response(StatusOk, "received")

\* an error of class errClass propagates out of the try block of request r, after
\* the effects `pre` of the failing step have been recorded
ThrowWith(r, pre, errClass) ==
  /\ response' = [response EXCEPT ![r] = CatchResponse(errClass)]
  /\ pc' = [pc EXCEPT ![r] = "done"]
  /\ log' = [log EXCEPT ![r] = (@ \o pre) \o <<LogEntry("throw", errClass, NoEntity, 0)>>]
  /\ UNCHANGED <<idx, storage>>

Throw(r, errClass) == ThrowWith(r, << >>, errClass)

\* step i of request r has completed with locals ld, cust: go to the next step
\* that applies, or return the acknowledgement
Continue(r, ld, cust) ==
  LET steps == StepsFor(event[r].type)
      nx == NextStep(steps, idx[r], ld, cust, sync, handlers)
  IN  IF nx > Len(steps)
        THEN /\ response' = [response EXCEPT ![r] = Acknowledged]
             /\ pc' = [pc EXCEPT ![r] = "done"]
             /\ idx' = [idx EXCEPT ![r] = nx]
        ELSE /\ idx' = [idx EXCEPT ![r] = nx]
             /\ UNCHANGED <<response, pc>>

CurrentStep(r) == StepsFor(event[r].type)[idx[r]]

\* -------------------------------------------------------------- actions
\* a request arrives; the method is checked before anything else
Receive(r, req) ==
  /\ pc[r] = "idle"
  /\ request' = [request EXCEPT ![r] = req]
  /\ IF MethodAllowed(req.method)
       THEN /\ pc' = [pc EXCEPT ![r] = "body"]
            /\ UNCHANGED response
       ELSE /\ pc' = [pc EXCEPT ![r] = "done"]
            /\ response' = [response EXCEPT ![r] =
                              Response(StatusMethodNotAllowed, "Method not allowed")]
  /\ UNCHANGED <<extVars, coVars, kvVars, cfgVars, upVars, storage, now, event, idx, latestData, customer,
                 syncCustomer, log>>

\* const body = await request.text()
ReadBody(r) ==
  /\ pc[r] = "body"
  /\ IF request[r].body = "readable"
       THEN /\ pc' = [pc EXCEPT ![r] = "signature"]
            /\ log' = [log EXCEPT ![r] = Append(@, LogEntry("body", None, NoEntity, 0))]
            /\ UNCHANGED <<response, idx, storage>>
       ELSE Throw(r, "TypeError")
  /\ UNCHANGED <<extVars, coVars, kvVars, cfgVars, upVars, now, request, event, latestData, customer,
                 syncCustomer>>

\* const signature = request.headers.get('stripe-signature'); if (!signature) ...
CheckSignature(r) ==
  /\ pc[r] = "signature"
  /\ IF SignaturePresent(request[r].signature)
       THEN /\ pc' = [pc EXCEPT ![r] = "verify"]
            /\ UNCHANGED response
       ELSE /\ pc' = [pc EXCEPT ![r] = "done"]
            /\ response' = [response EXCEPT ![r] =
                              Response(StatusUnauthorized, "Missing signature")]
  /\ UNCHANGED <<extVars, coVars, kvVars, cfgVars, upVars, storage, now, request, event, idx, latestData,
                 customer, syncCustomer, log>>

\* event = provider.verifyWebhook(body, signature), with its try / catch
Verify(r) ==
  /\ pc[r] = "verify"
  /\ LET outcome == verifyWebhook(provider, request[r].signature)
     IN  IF outcome = "event"
           THEN /\ \E ev \in WebhookEvents : event' = [event EXCEPT ![r] = ev]
                /\ pc' = [pc EXCEPT ![r] = "config"]
                /\ log' = [log EXCEPT ![r] =
                             Append(@, LogEntry("verify", "event", NoEntity, 0))]
                /\ UNCHANGED response
           ELSE /\ response' = [response EXCEPT ![r] = VerifyFailureResponse(outcome)]
                /\ pc' = [pc EXCEPT ![r] = "done"]
                /\ log' = [log EXCEPT ![r] =
                             Append(@, LogEntry("verify", outcome, NoEntity, 0))]
                /\ UNCHANGED event
  /\ UNCHANGED <<extVars, coVars, kvVars, cfgVars, upVars, storage, now, request, idx, latestData,
                 customer, syncCustomer>>

\* const config = loadStripeConfig(); const stripe = createStripeClient(config.secretKey)
LoadConfig(r) ==
  /\ pc[r] = "config"
  /\ IF loadStripeConfig(env) = "ok"
       THEN /\ pc' = [pc EXCEPT ![r] = "dispatch"]
            /\ UNCHANGED <<response, log, idx, storage>>
       ELSE Throw(r, loadStripeConfig(env))
  /\ UNCHANGED <<extVars, coVars, kvVars, cfgVars, upVars, now, request, event, latestData, customer,
                 syncCustomer>>

\* the if / else-if chain on event.type, up to the first await of the branch
Dispatch(r) ==
  /\ pc[r] = "dispatch"
  /\ LET steps == StepsFor(event[r].type)
         nx == NextStep(steps, 0, NoEntity, NoEntity, sync, handlers)
     IN  IF nx > Len(steps)
           THEN /\ response' = [response EXCEPT ![r] = Acknowledged]
                /\ pc' = [pc EXCEPT ![r] = "done"]
                /\ idx' = [idx EXCEPT ![r] = nx]
           ELSE /\ pc' = [pc EXCEPT ![r] = "run"]
                /\ idx' = [idx EXCEPT ![r] = nx]
                /\ UNCHANGED response
  /\ UNCHANGED <<extVars, coVars, kvVars, cfgVars, upVars, storage, now, request, event, latestData,
                 customer, syncCustomer, log>>
\* latestData = await fetchLatestCheckoutSession / fetchLatestSubscription(stripe, data.id)
FetchEntity(r) ==
  /\ pc[r] = "run"
  /\ CurrentStep(r).op = "fetchEntity"
  /\ \E outcome \in {"ok", "StripeError"} :
       IF outcome = "ok" /\ KnownUpstream(CurrentStep(r).arg, event[r].data.id)
         THEN LET kind == CurrentStep(r).arg
                  id == event[r].data.id
                  returned == IF kind = "checkout" THEN fetchLatestCheckoutSession(id)
                              ELSE fetchLatestSubscription(id)
                  ld == RefetchEventEntity(kind, event[r].data)
              IN  /\ latestData' = [latestData EXCEPT ![r] = ld]
                  /\ log' = [log EXCEPT ![r] = Append(@, LogEntry("retrieve", kind, returned, 0))]
                  /\ Continue(r, ld, customer[r])
                  /\ UNCHANGED storage
         ELSE /\ ThrowWith(r, <<LogEntry("retrieveFailed", CurrentStep(r).arg, NoEntity, 0)>>,
                           "StripeError")
              /\ UNCHANGED latestData
  /\ UNCHANGED <<extVars, coVars, kvVars, cfgVars, upVars, now, request, event, customer, syncCustomer>>

\* const customer = await fetchLatestCustomer(stripe, latestData.customerId), in the
\* cache block and again in the sync block
FetchCustomer(r) ==
  /\ pc[r] = "run"
  /\ CurrentStep(r).op = "fetchCustomer"
  /\ LET id == latestData[r].customerId
         block == CurrentStep(r).arg
     IN  \E outcome \in {"ok", "StripeError"} :
           IF outcome = "ok" /\ ~upCustomer[id].deleted
             THEN LET c == fetchLatestCustomer(id)
                  IN  /\ IF block = "cache"
                           THEN /\ customer' = [customer EXCEPT ![r] = c]
                                /\ UNCHANGED syncCustomer
                           ELSE /\ syncCustomer' = [syncCustomer EXCEPT ![r] = c]
                                /\ UNCHANGED customer
                      /\ log' = [log EXCEPT ![r] = Append(@, LogEntry("retrieve", "customer", c, 0))]
                      /\ Continue(r, latestData[r], IF block = "cache" THEN c ELSE customer[r])
                      /\ UNCHANGED storage
             ELSE /\ ThrowWith(r, <<LogEntry("retrieveFailed", "customer", NoEntity, 0)>>,
                               IF outcome = "ok" THEN "PaymentError" ELSE outcome)
                  /\ UNCHANGED <<customer, syncCustomer>>
  /\ UNCHANGED <<extVars, coVars, kvVars, cfgVars, upVars, now, request, event, latestData>>

\* await cache.set(key, value, ttl)
CacheWrite(r) ==
  /\ pc[r] = "run"
  /\ CurrentStep(r).op = "set"
  /\ LET st == CurrentStep(r)
         key == SetKey(st.arg, latestData[r], customer[r])
         value == SetValue(st.arg, latestData[r], customer[r])
     IN  \E outcome \in {"ok", "Error"} :
           IF outcome = "ok"
             THEN /\ storage' = CacheSet(storage, key, value, st.ttl)
                  /\ log' = [log EXCEPT ![r] = Append(@, LogEntry("set", key, value, st.ttl))]
                  /\ Continue(r, latestData[r], customer[r])
             ELSE Throw(r, outcome)
  /\ UNCHANGED <<extVars, coVars, kvVars, cfgVars, upVars, now, request, event, latestData, customer,
                 syncCustomer>>

\* await sync.on...(entity)
SyncCall(r) ==
  /\ pc[r] = "run"
  /\ CurrentStep(r).op = "sync"
  /\ LET st == CurrentStep(r)
         call == LogEntry("sync", st.arg,
                          CallbackArg("sync", st.arg, latestData[r], syncCustomer[r]), 0)
     IN  \E outcome \in {"ok", "Error", "WebhookError"} :
           IF outcome = "ok"
             THEN /\ log' = [log EXCEPT ![r] = Append(@, call)]
                  /\ Continue(r, latestData[r], customer[r])
                  /\ UNCHANGED storage
             ELSE ThrowWith(r, <<call>>, outcome)
  /\ UNCHANGED <<extVars, coVars, kvVars, cfgVars, upVars, now, request, event, latestData, customer,
                 syncCustomer>>

\* await handlers.on...(latestData)
HandlerCall(r) ==
  /\ pc[r] = "run"
  /\ CurrentStep(r).op = "handler"
  /\ LET st == CurrentStep(r)
         call == LogEntry("handler", st.arg,
                          CallbackArg("handler", st.arg, latestData[r], syncCustomer[r]), 0)
     IN  \E outcome \in {"ok", "Error", "WebhookError"} :
           IF outcome = "ok"
             THEN /\ log' = [log EXCEPT ![r] = Append(@, call)]
                  /\ Continue(r, latestData[r], customer[r])
                  /\ UNCHANGED storage
             ELSE ThrowWith(r, <<call>>, outcome)
  /\ UNCHANGED <<extVars, coVars, kvVars, cfgVars, upVars, now, request, event, latestData, customer,
                 syncCustomer>>

\* ------------------------------------------------- the upstream provider
\* the provider changes the state of a subscription
ChangeSubscription(id, status) ==
  /\ nchanges < MaxUpstreamChanges
  /\ status # upSubscription[id].status
  /\ upSubscription' = [upSubscription EXCEPT ![id].status = status]
  /\ nchanges' = nchanges + 1
  /\ UNCHANGED <<extVars, coVars, kvVars, cfgVars, upSession, upCustomer, storage, now, reqVars>>

\* the provider changes the email of a customer
ChangeCustomerEmail(id, email) ==
  /\ nchanges < MaxUpstreamChanges
  /\ ~upCustomer[id].deleted
  /\ email # upCustomer[id].email
  /\ upCustomer' = [upCustomer EXCEPT ![id].email = email]
  /\ nchanges' = nchanges + 1
  /\ UNCHANGED <<extVars, coVars, kvVars, cfgVars, upSession, upSubscription, storage, now, reqVars>>

\* the provider changes metadata.userId of a customer
ChangeCustomerUserId(id, userId) ==
  /\ nchanges < MaxUpstreamChanges
  /\ ~upCustomer[id].deleted
  /\ userId # upCustomer[id].userId
  /\ upCustomer' = [upCustomer EXCEPT ![id].userId = userId]
  /\ nchanges' = nchanges + 1
  /\ UNCHANGED <<extVars, coVars, kvVars, cfgVars, upSession, upSubscription, storage, now, reqVars>>

\* the provider deletes a customer
DeleteCustomer(id) ==
  /\ nchanges < MaxUpstreamChanges
  /\ ~upCustomer[id].deleted
  /\ upCustomer' = [upCustomer EXCEPT ![id].deleted = TRUE]
  /\ nchanges' = nchanges + 1
  /\ UNCHANGED <<extVars, coVars, kvVars, cfgVars, upSession, upSubscription, storage, now, reqVars>>

\* the provider changes a checkout session: its status or its customer
ChangeSession(id, status, customerId) ==
  /\ nchanges < MaxUpstreamChanges
  /\ \/ status # upSession[id].status /\ customerId = upSession[id].customerId
     \/ status = upSession[id].status /\ customerId # upSession[id].customerId
  /\ upSession' = [upSession EXCEPT ![id] = [status |-> status, customerId |-> customerId]]
  /\ nchanges' = nchanges + 1
  /\ UNCHANGED <<extVars, coVars, kvVars, cfgVars, upSubscription, upCustomer, storage, now, reqVars>>

Next ==
  \/ \E r \in Deliveries, req \in HttpRequests : Receive(r, req)
  \/ \E r \in Deliveries : ReadBody(r)
  \/ \E r \in Deliveries : CheckSignature(r)
  \/ \E r \in Deliveries : Verify(r)
  \/ \E r \in Deliveries : LoadConfig(r)
  \/ \E r \in Deliveries : Dispatch(r)
  \/ \E r \in Deliveries : FetchEntity(r)
  \/ \E r \in Deliveries : FetchCustomer(r)
  \/ \E r \in Deliveries : CacheWrite(r)
  \/ \E r \in Deliveries : SyncCall(r)
  \/ \E r \in Deliveries : HandlerCall(r)
  \/ \E id \in SubscriptionIds, status \in SubscriptionStatuses : ChangeSubscription(id, status)
  \/ \E id \in CustomerIds, email \in Emails \cup {""} : ChangeCustomerEmail(id, email)
  \/ \E id \in CustomerIds, userId \in UserIds \cup {None} : ChangeCustomerUserId(id, userId)
  \/ \E id \in CustomerIds : DeleteCustomer(id)
  \/ \E id \in SessionIds, status \in SessionStatuses, customerId \in CustomerIds \cup {None} :
        ChangeSession(id, status, customerId)

Spec == Init /\ [][Next]_vars

\* The event loop resumes an invocation once the promise it awaits settles.  The
\* calls of the Stripe client and of the cache settle, with a value or an error,
\* and so do the user's handlers; the promise a sync callback returns is the
\* application's and need not settle, so SyncCall gets no fairness.
SpecSyncMayHang ==
  /\ Spec
  /\ \A r \in Deliveries :
       /\ WF_vars(ReadBody(r))
       /\ WF_vars(CheckSignature(r))
       /\ WF_vars(Verify(r))
       /\ WF_vars(LoadConfig(r))
       /\ WF_vars(Dispatch(r))
       /\ WF_vars(FetchEntity(r))
       /\ WF_vars(FetchCustomer(r))
       /\ WF_vars(CacheWrite(r))
       /\ WF_vars(HandlerCall(r))

\* ------------------------------------------------ concurrent deliveries
\* two signed deliveries handled by one process: every await is a point where
\* the other invocation may run
SignedPosts == {req \in HttpRequests :
                  req.method = "POST" /\ req.body = "readable" /\ req.signature = "good"}

InitConcurrent ==
  /\ provider = [kind |-> "StripeProvider", webhookSecret |-> "whsec_endpoint"]
  /\ env = "sk_test_key"
  /\ sync = {}
  /\ handlers = {}
  /\ upSession = [id \in SessionIds |-> [status |-> "complete", customerId |-> "cus_1"]]
  /\ upSubscription = [id \in SubscriptionIds |-> [status |-> "active", customerId |-> "cus_1"]]
  /\ upCustomer = [id \in CustomerIds |-> [email |-> "a@x.io", userId |-> "u1", deleted |-> FALSE]]
  /\ nchanges = 0
  /\ storage = << >>
  /\ now = MsPerSecond
  /\ pc = [r \in Requests |-> "idle"]
  /\ request = [r \in Requests |-> NoRequest]
  /\ event = [r \in Requests |-> NoEvent]
  /\ idx = [r \in Requests |-> 0]
  /\ latestData = [r \in Requests |-> NoEntity]
  /\ customer = [r \in Requests |-> NoEntity]
  /\ syncCustomer = [r \in Requests |-> NoEntity]
  /\ response = [r \in Requests |-> NoResponse]
  /\ log = [r \in Requests |-> << >>]
  /\ NoCheckoutCalls
  /\ ExtUnused
  /\ AdaptersUnused

NextConcurrent ==
  \/ \E r \in Requests, req \in SignedPosts : Receive(r, req)
  \/ \E r \in Requests : ReadBody(r)
  \/ \E r \in Requests : CheckSignature(r)
  \/ \E r \in Requests : Verify(r)
  \/ \E r \in Requests : LoadConfig(r)
  \/ \E r \in Requests : Dispatch(r)
  \/ \E r \in Requests : FetchEntity(r)
  \/ \E r \in Requests : FetchCustomer(r)
  \/ \E r \in Requests : CacheWrite(r)
  \/ \E id \in SubscriptionIds, status \in SubscriptionStatuses : ChangeSubscription(id, status)
  \/ \E id \in CustomerIds, email \in Emails \cup {""} : ChangeCustomerEmail(id, email)
  \/ \E id \in SessionIds, status \in SessionStatuses, customerId \in CustomerIds \cup {None} :
        ChangeSession(id, status, customerId)

SpecConcurrent == InitConcurrent /\ [][NextConcurrent]_vars

\* ---------------------------------------- StripeProvider.createCheckout
whVars == <<cfgVars, upVars, reqVars>>

\* one effect of a call: what was done, on which key or id, with which value
CallEntry(op, name, val, ttl) == [op |-> op, name |-> name, val |-> val, ttl |-> ttl]

\* the call throws: PaymentError is rethrown as it is, anything else is wrapped
\* into PaymentError(PAYMENT_FAILED) with the default status
Rethrown(errClass, code, status) ==
  IF errClass = "PaymentError" THEN PaymentError(code, status)
  ELSE PaymentError("PAYMENT_FAILED", StatusServerError)

Fail(c, entries, errClass, code, status) ==
  checkout' = [checkout EXCEPT ![c].pc = "done",
                               ![c].result = Rethrown(errClass, code, status),
                               ![c].log = @ \o entries]

\* createCheckout(options) up to its first await: the two validations
BeginCheckout(c, options) ==
  /\ checkout[c].pc = "idle"
  /\ IF ValidRequest(options)
       THEN checkout' = [checkout EXCEPT
                           ![c].pc = "get", ![c].options = options,
                           ![c].after = {d \in Calls : checkout[d].pc = "done"}]
       ELSE checkout' = [checkout EXCEPT
                           ![c].pc = "done", ![c].options = options,
                           ![c].after = {d \in Calls : checkout[d].pc = "done"},
                           ![c].result = PaymentError("INVALID_REQUEST", StatusBadRequest)]
  /\ UNCHANGED <<extVars, whVars, kvVars, storage, now, stripeCustomers, stripeSessions>>

\* let customerId = await this.cache.get(cacheKey)
LookupCustomer(c) ==
  /\ checkout[c].pc = "get"
  /\ LET key == CacheKey(checkout[c].options)
         found == MemoryGetValue(storage, key, now, NoEntity)
     IN  \E outcome \in {"ok", "Error"} :
           IF outcome = "ok"
             THEN /\ storage' = MemoryGetStore(storage, key, now)
                  /\ checkout' = [checkout EXCEPT
                       ![c].pc = IF found = NoEntity THEN "createCustomer" ELSE "createSession",
                       ![c].customerId = found.id,
                       ![c].log = Append(@, CallEntry("get", key, found, NoTtl))]
             ELSE /\ Fail(c, <<CallEntry("getFailed", key, NoEntity, NoTtl)>>, "Error", None, 0)
                  /\ UNCHANGED storage
  /\ UNCHANGED <<extVars, whVars, kvVars, now, stripeCustomers, stripeSessions>>

\* const customer = await createCustomer(this.stripe, customerData)
CreateCustomer(c) ==
  /\ checkout[c].pc = "createCustomer"
  /\ LET o == checkout[c].options
         id == NewCustomerId(Len(stripeCustomers) + 1)
         created == Entity("customer", id, None, None, o.customerEmail, o.userId)
     IN  \E outcome \in {"ok", "StripeError"} :
           IF outcome = "ok"
             THEN /\ stripeCustomers' = Append(stripeCustomers, created)
                  /\ checkout' = [checkout EXCEPT
                       ![c].pc = "setUserId", ![c].customerId = id,
                       ![c].log = Append(@, CallEntry("createCustomer", id, created, NoTtl))]
             ELSE /\ Fail(c, <<CallEntry("createCustomerFailed", None, NoEntity, NoTtl)>>,
                          "PaymentError", "PAYMENT_FAILED", StatusServerError)
                  /\ UNCHANGED stripeCustomers
  /\ UNCHANGED <<extVars, whVars, kvVars, storage, now, stripeSessions>>

\* await this.cache.set(cacheKey, customerId)
StoreUserId(c) ==
  /\ checkout[c].pc = "setUserId"
  /\ LET key == CacheKey(checkout[c].options)
         value == IdRef(checkout[c].customerId)
     IN  \E outcome \in {"ok", "Error"} :
           IF outcome = "ok"
             THEN /\ storage' = MemorySet(storage, key, value, IdentityTtl, now)
                  /\ checkout' = [checkout EXCEPT
                       ![c].pc = "setEmail",
                       ![c].log = Append(@, CallEntry("set", key, value, IdentityTtl))]
             ELSE /\ Fail(c, <<CallEntry("setFailed", key, value, IdentityTtl)>>, "Error", None, 0)
                  /\ UNCHANGED storage
  /\ UNCHANGED <<extVars, whVars, kvVars, now, stripeCustomers, stripeSessions>>

\* await this.cache.set(`customer:email:${options.customerEmail}`, customerId)
StoreEmail(c) ==
  /\ checkout[c].pc = "setEmail"
  /\ LET key == "customer:email:" \o checkout[c].options.customerEmail
         value == IdRef(checkout[c].customerId)
     IN  \E outcome \in {"ok", "Error"} :
           IF outcome = "ok"
             THEN /\ storage' = MemorySet(storage, key, value, IdentityTtl, now)
                  /\ checkout' = [checkout EXCEPT
                       ![c].pc = "createSession",
                       ![c].log = Append(@, CallEntry("set", key, value, IdentityTtl))]
             ELSE /\ Fail(c, <<CallEntry("setFailed", key, value, IdentityTtl)>>, "Error", None, 0)
                  /\ UNCHANGED storage
  /\ UNCHANGED <<extVars, whVars, kvVars, now, stripeCustomers, stripeSessions>>

\* const session = await createCheckoutSession(this.stripe, checkoutOptions)
CreateSession(c) ==
  /\ checkout[c].pc = "createSession"
  /\ LET params == SessionParams(CheckoutOptionsFor(checkout[c].options, checkout[c].customerId))
         id == NewSessionId(Len(stripeSessions) + 1)
         created == Entity("checkout", id, params.customer, "open",
                           IF params.customer_email = None THEN "" ELSE params.customer_email,
                           params.userId)
     IN  \E outcome \in {"ok", "StripeError"} :
           IF outcome = "ok"
             THEN /\ stripeSessions' = Append(stripeSessions, created)
                  /\ checkout' = [checkout EXCEPT
                       ![c].pc = "setCheckout", ![c].session = created,
                       ![c].log = Append(@, CallEntry("createSession", id, created, NoTtl))]
             ELSE /\ Fail(c, <<CallEntry("createSessionFailed", None, NoEntity, NoTtl)>>,
                          "PaymentError", "PAYMENT_FAILED", StatusServerError)
                  /\ UNCHANGED stripeSessions
  /\ UNCHANGED <<extVars, whVars, kvVars, storage, now, stripeCustomers>>

\* await this.cache.set(`checkout:${session.id}`, session, 3600); return session
StoreSession(c) ==
  /\ checkout[c].pc = "setCheckout"
  /\ LET key == "checkout:" \o checkout[c].session.id
         value == checkout[c].session
     IN  \E outcome \in {"ok", "Error"} :
           IF outcome = "ok"
             THEN /\ storage' = MemorySet(storage, key, value, Seconds(CheckoutTtl), now)
                  /\ checkout' = [checkout EXCEPT
                       ![c].pc = "done", ![c].result = Returned,
                       ![c].log = Append(@, CallEntry("set", key, value, Seconds(CheckoutTtl)))]
             ELSE /\ Fail(c, <<CallEntry("setFailed", key, value, Seconds(CheckoutTtl))>>,
                          "Error", None, 0)
                  /\ UNCHANGED storage
  /\ UNCHANGED <<extVars, whVars, kvVars, now, stripeCustomers, stripeSessions>>

\* time passes
Tick(d) ==
  /\ nticks < MaxTicks
  /\ now' = now + d
  /\ nticks' = nticks + 1
  /\ UNCHANGED <<extVars, whVars, coVars, storage, nextSweep, lastOp, history, redisCalls, adapter>>

\* a day passes: the longest lifetime an entry of the cache is given
DayPasses ==
  /\ nticks < MaxDays
  /\ now' = now + CustomerTtl * MsPerSecond
  /\ nticks' = nticks + 1
  /\ UNCHANGED <<extVars, whVars, coVars, storage, nextSweep, lastOp, history, redisCalls, adapter>>

\* what the cache holds before the first call: nothing, the identity mapping an
\* earlier createCheckout left, or the one an earlier webhook left
CheckoutInitialStorages ==
  { << >>,
    [k \in {"customer:userId:u1"} |-> [value |-> IdRef("cus_1"), expiresAt |-> NoExpiry]],
    [k \in {"customer:userId:u1"} |->
       [value |-> IdRef("cus_1"), expiresAt |-> CustomerTtl * MsPerSecond]] }

\* the webhook handler is not in use
WebhookUnused ==
  /\ provider = [kind |-> "StripeProvider", webhookSecret |-> "whsec_endpoint"]
  /\ env = "sk_test_key"
  /\ sync = {}
  /\ handlers = {}
  /\ upSession = [id \in SessionIds |-> [status |-> "complete", customerId |-> "cus_1"]]
  /\ upSubscription = [id \in SubscriptionIds |-> [status |-> "active", customerId |-> "cus_1"]]
  /\ upCustomer = [id \in CustomerIds |-> [email |-> "a@x.io", userId |-> "u1", deleted |-> FALSE]]
  /\ nchanges = 0
  /\ pc = [r \in Requests |-> "idle"]
  /\ request = [r \in Requests |-> NoRequest]
  /\ event = [r \in Requests |-> NoEvent]
  /\ idx = [r \in Requests |-> 0]
  /\ latestData = [r \in Requests |-> NoEntity]
  /\ customer = [r \in Requests |-> NoEntity]
  /\ syncCustomer = [r \in Requests |-> NoEntity]
  /\ response = [r \in Requests |-> NoResponse]
  /\ log = [r \in Requests |-> << >>]

InitCheckout ==
  /\ WebhookUnused
  /\ NoCheckoutCalls
  /\ ExtUnused
  /\ AdaptersUnused
  /\ now = MsPerSecond
  /\ storage \in CheckoutInitialStorages

NextCheckout ==
  \/ \E c \in Calls, options \in CheckoutOptions : BeginCheckout(c, options)
  \/ \E c \in Calls : LookupCustomer(c)
  \/ \E c \in Calls : CreateCustomer(c)
  \/ \E c \in Calls : StoreUserId(c)
  \/ \E c \in Calls : StoreEmail(c)
  \/ \E c \in Calls : CreateSession(c)
  \/ \E c \in Calls : StoreSession(c)
  \/ DayPasses

SpecCheckout == InitCheckout /\ [][NextCheckout]_vars

\* ------------------------------------------ StripeProvider.createCustomer
\* CustomerData: email and the optional metadata.userId
CustomerData ==
  [userId : {None, "u1"}, customerEmail : Emails, customerId : {None}]

ReturnedCustomer == [class |-> "customer", code |-> None, status |-> 0]

\* a lookup that never finds anything
NeverCached(found) == FALSE

\* if (cached) / if (userIdCached) / if (fullCached)
Cached(found) == found # NoEntity

\* createCustomer(data) up to its first await
BeginCustomer(c, data) ==
  /\ checkout[c].pc = "idle"
  /\ checkout' = [checkout EXCEPT
                    ![c].pc = "byEmail", ![c].options = data,
                    ![c].after = {d \in Calls : checkout[d].pc = "done"}]
  /\ UNCHANGED <<extVars, whVars, kvVars, storage, now, stripeCustomers, stripeSessions>>

\* one cache.get of createCustomer: a hit returns what was found (or goes on to
\* the next lookup), a miss goes on; a rejected get fails the call
CustomerLookup(c, at, key, onHit, onMiss, returns) ==
  /\ checkout[c].pc = at
  /\ LET found == MemoryGetValue(storage, key, now, NoEntity)
     IN  \E outcome \in {"ok", "Error"} :
           IF outcome = "ok"
             THEN /\ storage' = MemoryGetStore(storage, key, now)
                  /\ checkout' = [checkout EXCEPT
                       ![c].pc = IF Cached(found) THEN onHit ELSE onMiss,
                       ![c].customerId = IF Cached(found) THEN found.id ELSE @,
                       ![c].result = IF Cached(found) /\ returns THEN ReturnedCustomer ELSE @,
                       ![c].returned = IF Cached(found) /\ returns THEN found ELSE @,
                       ![c].log = Append(@, CallEntry("get", key, found, NoTtl))]
             ELSE /\ Fail(c, <<CallEntry("getFailed", key, NoEntity, NoTtl)>>, "Error", None, 0)
                  /\ UNCHANGED storage
  /\ UNCHANGED <<extVars, whVars, kvVars, now, stripeCustomers, stripeSessions>>

\* const cached = await this.cache.get<Customer>(cacheKey); if (cached) return cached
LookupByEmail(c) ==
  CustomerLookup(c, "byEmail", "customer:email:" \o checkout[c].options.customerEmail,
                 "done",
                 IF checkout[c].options.userId # None THEN "byUserId" ELSE "create",
                 TRUE)

\* const userIdCached = await this.cache.get<string>(userIdCacheKey)
LookupByUserId(c) ==
  /\ checkout[c].options.userId # None
  /\ CustomerLookup(c, "byUserId", "customer:userId:" \o checkout[c].options.userId,
                    "byId", "create", FALSE)

\* const fullCached = await this.cache.get<Customer>(`customer:${userIdCached}`)
LookupById(c) ==
  /\ checkout[c].customerId # None
  /\ CustomerLookup(c, "byId", "customer:" \o checkout[c].customerId, "done", "create", TRUE)

\* const customer = await createCustomer(this.stripe, data)
CreateUpstream(c) ==
  /\ checkout[c].pc = "create"
  /\ LET o == checkout[c].options
         id == NewCustomerId(Len(stripeCustomers) + 1)
         created == Entity("customer", id, None, None, o.customerEmail, o.userId)
     IN  \E outcome \in {"ok", "StripeError"} :
           IF outcome = "ok"
             THEN /\ stripeCustomers' = Append(stripeCustomers, created)
                  /\ checkout' = [checkout EXCEPT
                       ![c].pc = "storeId", ![c].customerId = id, ![c].returned = created,
                       ![c].log = Append(@, CallEntry("createCustomer", id, created, NoTtl))]
             ELSE /\ Fail(c, <<CallEntry("createCustomerFailed", None, NoEntity, NoTtl)>>,
                          "PaymentError", "PAYMENT_FAILED", StatusServerError)
                  /\ UNCHANGED stripeCustomers
  /\ UNCHANGED <<extVars, whVars, kvVars, storage, now, stripeSessions>>

\* one cache.set of createCustomer, 24 hours; after the last one the customer
\* is returned
CustomerStore(c, at, key, value, next) ==
  /\ checkout[c].pc = at
  /\ \E outcome \in {"ok", "Error"} :
       IF outcome = "ok"
         THEN /\ storage' = MemorySet(storage, key, value, Seconds(CustomerTtl), now)
              /\ checkout' = [checkout EXCEPT
                   ![c].pc = next,
                   ![c].result = IF next = "done" THEN ReturnedCustomer ELSE @,
                   ![c].log = Append(@, CallEntry("set", key, value, Seconds(CustomerTtl)))]
         ELSE /\ Fail(c, <<CallEntry("setFailed", key, value, Seconds(CustomerTtl))>>,
                      "Error", None, 0)
              /\ UNCHANGED storage
  /\ UNCHANGED <<extVars, whVars, kvVars, now, stripeCustomers, stripeSessions>>

\* await this.cache.set(`customer:${customer.id}`, customer, 86400)
StoreById(c) ==
  CustomerStore(c, "storeId", "customer:" \o checkout[c].returned.id, checkout[c].returned,
                "storeEmail")

\* await this.cache.set(cacheKey, customer, 86400)
StoreByEmail(c) ==
  CustomerStore(c, "storeEmail", "customer:email:" \o checkout[c].options.customerEmail,
                checkout[c].returned,
                IF checkout[c].options.userId # None THEN "storeUserId" ELSE "done")

\* await this.cache.set(`customer:userId:${data.metadata.userId}`, customer.id, 86400)
StoreByUserId(c) ==
  /\ checkout[c].options.userId # None
  /\ CustomerStore(c, "storeUserId", "customer:userId:" \o checkout[c].options.userId,
                   IdRef(checkout[c].returned.id), "done")

\* what the cache holds before the first call: nothing, what the webhook of a
\* completed checkout left, or what the miss path of createCheckout left
CustomerInitialStorages ==
  LET cus == Entity("customer", "cus_1", None, None, "a@x.io", "u1")
      day == CustomerTtl * MsPerSecond
  IN  { << >>,
        [k \in {"customer:cus_1", "customer:email:a@x.io", "customer:userId:u1"} |->
           IF k = "customer:userId:u1" THEN [value |-> IdRef("cus_1"), expiresAt |-> day]
           ELSE [value |-> cus, expiresAt |-> day]],
        [k \in {"customer:email:a@x.io", "customer:userId:u1"} |->
           [value |-> IdRef("cus_1"), expiresAt |-> NoExpiry]] }

InitCustomer ==
  /\ WebhookUnused
  /\ NoCheckoutCalls
  /\ ExtUnused
  /\ AdaptersUnused
  /\ now = MsPerSecond
  /\ storage \in CustomerInitialStorages

NextCustomer ==
  \/ \E c \in Calls, data \in CustomerData : BeginCustomer(c, data)
  \/ \E c \in Calls : LookupByEmail(c)
  \/ \E c \in Calls : LookupByUserId(c)
  \/ \E c \in Calls : LookupById(c)
  \/ \E c \in Calls : CreateUpstream(c)
  \/ \E c \in Calls : StoreById(c)
  \/ \E c \in Calls : StoreByEmail(c)
  \/ \E c \in Calls : StoreByUserId(c)
  \/ DayPasses

SpecCustomer == InitCustomer /\ [][NextCustomer]_vars

\* ------------------------------------- the parameters of a checkout session
\* Step 4 of createCheckout for a validated request and the customer id the
\* lookup or the creation gave: checkoutOptions = { ...options, customerId,
\* metadata: { userId, ...options.metadata } }, then createCheckoutSession builds
\* the params it sends to stripe.checkout.sessions.create
BuildSessionParams(req, customerId) ==
  /\ ValidRequest(req)
  /\ sessionParams' =
       [built |-> TRUE, request |-> req,
        params |-> SessionCreateParams(CheckoutOptionsFor(req, customerId))]
  /\ UNCHANGED <<hook, hookOps, hookLog, location, whVars, coVars, kvVars, storage, now>>

InitSessionParams ==
  /\ WebhookUnused
  /\ NoCheckoutCalls
  /\ AdaptersUnused
  /\ ExtUnused
  /\ now = MsPerSecond
  /\ storage = << >>

NextSessionParams ==
  \E req \in SessionRequests, customerId \in {"cus_1", NewCustomerId(1)} :
    BuildSessionParams(req, customerId)

SpecSessionParams == InitSessionParams /\ [][NextSessionParams]_vars

\* ------------------------------------------- useCheckout, useSubscription,
\* useCustomer: one hook instance and the operations started on it
HookCallback(o, name, arg, err) == [op |-> o, callback |-> name, arg |-> arg, error |-> err]

\* if (abortControllerRef.current) abortControllerRef.current.abort()
AbortCurrent(ops) ==
  IF hook.ref = 0 THEN ops ELSE [ops EXCEPT ![hook.ref].aborted = TRUE]

\* fetchSubscription / fetchCustomer without any identifier: setSubscription(null)
\* and return, before the request in flight is aborted
EndsEarly(name, ids) == name = "fetch" /\ ~ids

\* the hook is rendered for the first time
HookMount(kind, ids) ==
  /\ hook = NoHook
  /\ hook' = [NoHook EXCEPT !.kind = kind, !.mounted = TRUE, !.hasIds = ids]
  /\ UNCHANGED <<whVars, coVars, kvVars, storage, now, sessionParams, hookOps, hookLog, location>>

\* the catch and finally blocks of an operation that was not aborted
HookFails(o, msg) ==
  /\ hook' = [hook EXCEPT !.error = msg, !.isLoading = FALSE]
  /\ hookLog' = Append(hookLog, HookCallback(o, "onError", NoEntity, msg))
  /\ hookOps' = [hookOps EXCEPT ![o].pc = "done"]
  /\ UNCHANGED location

\* checkout(), fetchSubscription(), fetchCustomer() or refresh() is called, up to
\* its first await.  fetch is what the effect calls after a render whose
\* identifiers are ids.
HookStart(name, valid, ids) ==
  /\ hook.mounted
  /\ hook.started < MaxOps
  /\ name \in OpNames(hook.kind)
  /\ LET o == hook.started + 1
         ended == [NoOp EXCEPT !.name = name, !.pc = "done"]
     IN  IF EndsEarly(name, ids)
           THEN /\ hook' = [hook EXCEPT !.value = NoEntity, !.hasIds = ids, !.started = o]
                /\ hookOps' = [hookOps EXCEPT ![o] = ended]
                /\ UNCHANGED hookLog
         ELSE IF name = "refresh" /\ hook.kind = "useSubscription" /\ ~hook.hasIds
           THEN /\ hook' = [hook EXCEPT !.started = o]
                /\ hookOps' = [hookOps EXCEPT ![o] = ended]
                /\ UNCHANGED hookLog
         ELSE IF name = "checkout" /\ ~valid
           THEN /\ hook' = [hook EXCEPT !.ref = o, !.started = o, !.isLoading = FALSE,
                                        !.error = "priceId is required"]
                /\ hookOps' = [AbortCurrent(hookOps) EXCEPT ![o] = ended]
                /\ hookLog' = Append(hookLog,
                                     HookCallback(o, "onError", NoEntity, "priceId is required"))
         ELSE /\ hook' = [hook EXCEPT !.ref = o, !.started = o, !.isLoading = TRUE,
                                      !.error = None,
                                      !.hasIds = IF name = "fetch" THEN ids ELSE @]
              /\ hookOps' = [AbortCurrent(hookOps) EXCEPT
                               ![o] = [NoOp EXCEPT !.name = name, !.pc = "fetch"]]
              /\ UNCHANGED hookLog
  /\ UNCHANGED <<whVars, coVars, kvVars, storage, now, sessionParams, location>>

\* the 404 branch: fetchSubscription, fetchCustomer and useCustomer's refresh
HandlesNotFound(kind, name) == ~(kind = "useSubscription" /\ name = "refresh")

\* const response = await fetch(...) settles
HookFetchSettles(o, resp) ==
  /\ hookOps[o].pc = "fetch"
  /\ IF hookOps[o].aborted
       THEN /\ hookOps' = [hookOps EXCEPT ![o].pc = "done"]
            /\ UNCHANGED <<hook, hookLog, location>>
     ELSE IF resp = Rejected
       THEN HookFails(o, resp.message)
     ELSE IF ResponseOk(resp)
       THEN /\ hookOps' = [hookOps EXCEPT ![o].pc = "json", ![o].response = resp]
            /\ UNCHANGED <<hook, hookLog, location>>
     ELSE IF hook.kind = "useCheckout"
       THEN /\ hookOps' = [hookOps EXCEPT ![o].pc = "errorJson", ![o].response = resp]
            /\ UNCHANGED <<hook, hookLog, location>>
     ELSE IF resp.status = StatusNotFound /\ HandlesNotFound(hook.kind, hookOps[o].name)
       THEN /\ hook' = [hook EXCEPT !.value = NoEntity, !.isLoading = FALSE]
            /\ hookLog' = Append(hookLog, HookCallback(o, "onLoad", NoEntity, None))
            /\ hookOps' = [hookOps EXCEPT ![o].pc = "done", ![o].response = resp]
            /\ UNCHANGED location
     ELSE HookFails(o, resp.message)
  /\ UNCHANGED <<whVars, coVars, kvVars, storage, now, sessionParams>>

\* const result: CheckoutSession = data.session
SessionOf(resp) == IF "session" \in resp.fields THEN resp.entity ELSE Undefined

\* await response.json() settles, and the rest of the operation runs
HookJsonSettles(o) ==
  /\ hookOps[o].pc \in {"json", "errorJson"}
  /\ LET op == hookOps[o]
         resp == op.response
     IN  IF op.aborted
           THEN /\ hookOps' = [hookOps EXCEPT ![o].pc = "done"]
                /\ UNCHANGED <<hook, hookLog, location>>
         ELSE IF op.pc = "errorJson"
           THEN HookFails(o, resp.message)
         ELSE IF op.name = "checkout" /\ SessionOf(resp) = Undefined
           THEN \* setSession(undefined); result.url throws a TypeError
                /\ hook' = [hook EXCEPT !.value = Undefined, !.error = "TypeError",
                                        !.isLoading = FALSE]
                /\ hookLog' = Append(hookLog, HookCallback(o, "onError", NoEntity, "TypeError"))
                /\ hookOps' = [hookOps EXCEPT ![o].pc = "done"]
                /\ UNCHANGED location
         ELSE IF op.name = "checkout"
           THEN /\ hook' = [hook EXCEPT !.value = SessionOf(resp), !.isLoading = FALSE]
                /\ location' = UrlOf(SessionOf(resp).id)
                /\ hookLog' = Append(hookLog, HookCallback(o, "onSuccess", SessionOf(resp), None))
                /\ hookOps' = [hookOps EXCEPT ![o].pc = "done"]
         ELSE /\ hook' = [hook EXCEPT !.value = resp.entity, !.isLoading = FALSE]
              /\ hookLog' = Append(hookLog,
                                   HookCallback(o, IF op.name = "fetch" THEN "onLoad" ELSE "onRefresh",
                                                resp.entity, None))
              /\ hookOps' = [hookOps EXCEPT ![o].pc = "done"]
              /\ UNCHANGED location
  /\ UNCHANGED <<whVars, coVars, kvVars, storage, now, sessionParams>>

\* useCheckout's reset()
HookReset ==
  /\ hook.mounted
  /\ hook.kind = "useCheckout"
  /\ hookOps' = AbortCurrent(hookOps)
  /\ hook' = [hook EXCEPT !.value = NoEntity, !.error = None, !.isLoading = FALSE]
  /\ UNCHANGED <<whVars, coVars, kvVars, storage, now, sessionParams, hookLog, location>>

\* the cleanup of the effect registered at mount
HookUnmount ==
  /\ hook.mounted
  /\ hookOps' = AbortCurrent(hookOps)
  /\ hook' = [hook EXCEPT !.mounted = FALSE]
  /\ UNCHANGED <<whVars, coVars, kvVars, storage, now, sessionParams, hookLog, location>>

InitHooks ==
  /\ WebhookUnused
  /\ NoCheckoutCalls
  /\ AdaptersUnused
  /\ ExtUnused
  /\ now = MsPerSecond
  /\ storage = << >>

NextHooks ==
  \/ \E kind \in HookKinds, ids \in BOOLEAN : (kind = "useCheckout" => ~ids) /\ HookMount(kind, ids)
  \/ \E name \in {"checkout", "fetch", "refresh"}, valid \in BOOLEAN, ids \in BOOLEAN :
       /\ name # "checkout" => valid
       /\ name # "fetch" => ids = hook.hasIds
       /\ HookStart(name, valid, ids)
  \/ \E o \in OpIds, resp \in ResponsesFor(hook.kind) \cup {Rejected} : HookFetchSettles(o, resp)
  \/ \E o \in OpIds : HookJsonSettles(o)
  \/ HookReset
  \/ HookUnmount

SpecHooks == InitHooks /\ [][NextHooks]_vars


\* --------------------------------------------------------- the KV adapters
\* the client's record of a set: the lifetime it asked for, read as the interface
\* documents it (no lifetime when ttlSeconds is omitted, zero or negative)
Recorded(h, value, ttl, t) ==
  [state |-> "set", value |-> value, at |-> t,
   seconds |-> IF ttl.given /\ ttl.seconds > 0 THEN ttl.seconds ELSE 0,
   over |-> IF h.state # "set" THEN "nothing"
            ELSE IF h.seconds > 0 THEN "expiring" ELSE "permanent"]

\* memory adapter: set(key, value, ttlSeconds)
MemSet(k, v, ttl) ==
  /\ adapter = "memory"
  /\ storage' = MemorySet(storage, k, v, ttl, now)
  /\ history' = [history EXCEPT ![k] = Recorded(@, v, ttl, now)]
  /\ UNCHANGED <<extVars, whVars, coVars, now, nticks, nextSweep, lastOp, redisCalls, adapter>>

\* memory adapter: get(key)
MemGet(k) ==
  /\ adapter = "memory"
  /\ lastOp' = [key |-> k, result |-> MemoryGetValue(storage, k, now, None)]
  /\ storage' = MemoryGetStore(storage, k, now)
  /\ UNCHANGED <<extVars, whVars, coVars, now, nticks, nextSweep, history, redisCalls, adapter>>

\* memory adapter: delete(key)
MemDelete(k) ==
  /\ adapter = "memory"
  /\ storage' = MemoryDelete(storage, k)
  /\ history' = [history EXCEPT ![k] = [NoHistory EXCEPT !.state = "deleted"]]
  /\ UNCHANGED <<extVars, whVars, coVars, now, nticks, nextSweep, lastOp, redisCalls, adapter>>

\* memory adapter: the cleanup interval fires
Sweep ==
  /\ adapter = "memory"
  /\ now >= nextSweep
  /\ storage' = MemorySweep(storage, now)
  /\ nextSweep' = now + SweepIntervalMs
  /\ UNCHANGED <<extVars, whVars, coVars, now, nticks, lastOp, history, redisCalls, adapter>>

\* Upstash adapter: set(key, value, ttlSeconds) calls redis.set; the remote store
\* keeps the text it is given
UpstashSet(k, v, ttl) ==
  /\ adapter = "upstash"
  /\ redisCalls' = <<RedisCall("set", k, Serialize(v), ttl)>>
  /\ \E outcome \in {"ok", "Error"} :
       IF outcome = "ok"
         THEN /\ storage' = [j \in DOMAIN storage \cup {k} |->
                               IF j = k THEN [value |-> Serialize(v), expiresAt |-> NoExpiry]
                               ELSE storage[j]]
              /\ history' = [history EXCEPT ![k] = Recorded(@, v, ttl, now)]
              /\ lastOp' = [key |-> k, result |-> Void]
         ELSE /\ lastOp' = [key |-> k, result |-> UpstashError("set", k)]
              /\ UNCHANGED <<storage, history>>
  /\ UNCHANGED <<extVars, whVars, coVars, now, nticks, nextSweep, adapter>>

\* Upstash adapter: get(key) calls redis.get and decodes the text
UpstashGet(k) ==
  /\ adapter = "upstash"
  /\ redisCalls' = <<RedisCall("get", k, "", NoTtl)>>
  /\ \E outcome \in {"ok", "Error"} :
       IF outcome = "ok"
         THEN lastOp' = [key |-> k,
                         result |-> IF k \notin DOMAIN storage THEN Null
                                    ELSE Deserialize(storage[k].value)]
         ELSE lastOp' = [key |-> k, result |-> UpstashError("get", k)]
  /\ UNCHANGED <<extVars, whVars, coVars, storage, now, nticks, nextSweep, history, adapter>>

\* Upstash adapter: delete(key) calls redis.del
UpstashDelete(k) ==
  /\ adapter = "upstash"
  /\ redisCalls' = <<RedisCall("del", k, "", NoTtl)>>
  /\ \E outcome \in {"ok", "Error"} :
       IF outcome = "ok"
         THEN /\ storage' = [j \in DOMAIN storage \ {k} |-> storage[j]]
              /\ history' = [history EXCEPT ![k] = [NoHistory EXCEPT !.state = "deleted"]]
              /\ lastOp' = [key |-> k, result |-> Void]
         ELSE /\ lastOp' = [key |-> k, result |-> UpstashError("delete", k)]
              /\ UNCHANGED <<storage, history>>
  /\ UNCHANGED <<extVars, whVars, coVars, now, nticks, nextSweep, adapter>>

\* one second, or one period of the cleanup interval
TickDurations == {MsPerSecond, SweepIntervalMs}

InitAdapters ==
  /\ WebhookUnused
  /\ NoCheckoutCalls
  /\ ExtUnused
  /\ nticks = 0
  /\ nextSweep = MsPerSecond + SweepIntervalMs
  /\ lastOp = NoGet
  /\ history = [k \in Keys |-> NoHistory]
  /\ redisCalls = << >>
  /\ adapter \in {"memory", "upstash"}
  /\ now = MsPerSecond
  /\ storage = << >>

NextAdapters ==
  \/ \E a \in SetArgs : MemSet(a.key, a.value, a.ttl)
  \/ \E k \in Keys : MemGet(k)
  \/ \E k \in Keys : MemDelete(k)
  \/ Sweep
  \/ \E a \in UpstashSetArgs : UpstashSet(a.key, a.value, a.ttl)
  \/ \E k \in Keys : UpstashGet(k)
  \/ \E k \in Keys : UpstashDelete(k)
  \* only the memory adapter reads the clock
  \/ \E d \in TickDurations : adapter = "memory" /\ Tick(d)

SpecAdapters == InitAdapters /\ [][NextAdapters]_vars

\* ------------------------------------------- the webhook handler over time
\* Date.now() moves on between the awaits of a handler invocation and between
\* deliveries: by a second, or by the lifetime of a subscription snapshot
WebhookTickDurations == {MsPerSecond, SubscriptionTtl * MsPerSecond}

NextTimed ==
  \/ \E r \in Deliveries, req \in SignedPosts : Receive(r, req)
  \/ \E r \in Deliveries : ReadBody(r)
  \/ \E r \in Deliveries : CheckSignature(r)
  \/ \E r \in Deliveries : Verify(r)
  \/ \E r \in Deliveries : LoadConfig(r)
  \/ \E r \in Deliveries : Dispatch(r)
  \/ \E r \in Deliveries : FetchEntity(r)
  \/ \E r \in Deliveries : FetchCustomer(r)
  \/ \E r \in Deliveries : CacheWrite(r)
  \/ \E d \in WebhookTickDurations : Tick(d)

SpecTimed == InitConcurrent /\ [][NextTimed]_vars

\* ====================================================== properties
Done(r) == pc[r] = "done"
\* the positions of the log of r that hold an effect of one of the kinds ops
Ops(r, ops) == {i \in DOMAIN log[r] : log[r][i].op \in ops}
\* provider.verifyWebhook returned an event / threw
Verified(r) == \E i \in Ops(r, {"verify"}) : log[r][i].name = "event"
VerifyFailed(r) == \E i \in Ops(r, {"verify"}) : log[r][i].name # "event"
\* the sync callback of request r was invoked and threw
SyncThrew(r) ==
  \E i \in Ops(r, {"sync"}) : i < Len(log[r]) /\ log[r][i + 1].op = "throw"
\* the callbacks the documentation assigns to an event type
DocSyncFor(type) ==
  IF type = "checkout.session.completed" THEN "onCustomerCreated"
  ELSE IF type \in CanceledTypes THEN "onSubscriptionCanceled"
  ELSE "onSubscriptionUpdated"
DocHandlerFor(type) ==
  IF type = "checkout.session.completed" THEN "onCheckoutComplete"
  ELSE IF type = "customer.subscription.created" THEN "onSubscriptionCreated"
  ELSE IF type = "customer.subscription.updated" THEN "onSubscriptionUpdated"
  ELSE "onSubscriptionCanceled"
UpstreamOps == {"retrieve", "retrieveFailed"}
CallbackOps == {"sync", "handler"}

\* C1: a non-200 status is returned only if the method is not POST, the
\* stripe-signature header is missing, or signature verification failed; once
\* verification has succeeded, whatever is thrown by the refetch, a cache write,
\* the sync adapter or a user handler, the request is answered 200.
C1_Non200OnlyUpToVerification ==
  \A r \in Requests :
    Done(r) =>
      /\ response[r].status # StatusOk =>
           \/ request[r].method # "POST"
           \/ request[r].signature = None
           \/ VerifyFailed(r)
      /\ Verified(r) => response[r].status = StatusOk

\* C2: never-trust-payload.  Every value written to the cache and every entity
\* passed to a sync or user callback is a snapshot an upstream retrieve returned
\* earlier in the same request (or the id of one), the first retrieve being for
\* the id found in the event; the last value written under a key is what the
\* cache holds.
C2_NeverTrustPayload ==
  \A r \in Requests :
    /\ \A i \in Ops(r, {"set"} \cup CallbackOps) :
         \E j \in Ops(r, {"retrieve"}) :
           /\ j < i
           /\ \/ log[r][i].val = log[r][j].val
              \/ log[r][i].val = IdRef(log[r][j].val.id)
    /\ \A j \in Ops(r, {"retrieve"}) :
         (\A k \in Ops(r, {"retrieve"}) : j <= k) => log[r][j].val.id = event[r].data.id
    /\ \A i \in Ops(r, {"set"}) :
         (\A k \in Ops(r, {"set"}) : log[r][k].name = log[r][i].name => k <= i)
           => /\ log[r][i].name \in DOMAIN storage
              /\ storage[log[r][i].name].value = log[r][i].val

\* C2 witness: the payload claimed one status, the refetch returned another, and
\* the refetched snapshot was cached and forwarded to a callback.
C2_Witness ==
  \E r \in Requests :
    /\ Done(r)
    /\ \E i \in Ops(r, {"set"}), k \in Ops(r, CallbackOps) :
         /\ log[r][i].val.kind \in {"checkout", "subscription"}
         /\ log[r][i].val.status # event[r].data.status
         /\ log[r][k].val = log[r][i].val
         /\ storage[log[r][i].name].value.status # event[r].data.status

\* C3: a POST without a stripe-signature header is answered 401 and makes no
\* provider call, upstream call, cache operation or callback.
C3_MissingSignatureRejected ==
  \A r \in Requests :
    (Done(r) /\ request[r].method = "POST" /\ request[r].signature = None) =>
      /\ response[r].status = StatusUnauthorized
      /\ Ops(r, {"verify"} \cup UpstreamOps \cup {"set"} \cup CallbackOps) = {}
      /\ storage \in InitialStorages

\* C4: whenever provider.verifyWebhook fails, the handler answers 401 with the
\* provider's error code and performs no refetch, no cache write and no callback.
C4_VerifyFailureRejected ==
  \A r \in Requests :
    (Done(r) /\ VerifyFailed(r)) =>
      /\ response[r] = Response(StatusUnauthorized, "WEBHOOK_SIGNATURE_INVALID")
      /\ Ops(r, UpstreamOps \cup {"set"} \cup CallbackOps) = {}

\* C5: within one request, verification precedes every upstream retrieve, the
\* retrieve of an entity precedes the cache write of that entity, every cache
\* write precedes the sync callback, and the sync callback (when one applies)
\* precedes the user handler.
C5_StepOrder ==
  \A r \in Requests :
    \A i \in DOMAIN log[r] :
      /\ log[r][i].op \in UpstreamOps =>
           \E j \in Ops(r, {"verify"}) : j < i /\ log[r][j].name = "event"
      /\ log[r][i].op = "set" =>
           \E j \in Ops(r, {"retrieve"}) :
             /\ j < i
             /\ \/ log[r][i].val = log[r][j].val
                \/ log[r][i].val = IdRef(log[r][j].val.id)
      /\ log[r][i].op = "sync" =>
           /\ Ops(r, {"set"}) # {}
           /\ \A j \in Ops(r, {"set"}) : j < i
      /\ log[r][i].op = "handler" =>
           /\ \A j \in Ops(r, {"set"} \cup {"sync"}) : j < i
           /\ (/\ DocSyncFor(event[r].type) \in sync
               /\ event[r].type = "checkout.session.completed" => latestData[r].customerId # None)
                => Ops(r, {"sync"}) # {}

\* C5 witness: a request that verified, refetched, wrote the cache, called the
\* sync adapter and the user handler, and was acknowledged.
C5_Witness ==
  \E r \in Requests :
    /\ Done(r)
    /\ response[r] = Acknowledged
    /\ \A op \in {"verify", "retrieve", "set", "sync", "handler"} : Ops(r, {op}) # {}
    /\ Cardinality(Ops(r, {"set"})) > 1

\* C6: if the sync adapter callback throws, the pipeline continues: the user
\* handler configured for the event kind is still invoked with the fresh entity
\* and the request is acknowledged.
C6_SyncFailureContinues ==
  \A r \in Requests :
    (Done(r) /\ SyncThrew(r)) =>
      /\ response[r].status = StatusOk
      /\ DocHandlerFor(event[r].type) \in handlers =>
           \E i \in Ops(r, {"handler"}) :
             /\ log[r][i].name = DocHandlerFor(event[r].type)
             /\ log[r][i].val = latestData[r]

\* C7: the entity handed to the sync adapter and to the user handler is the same
\* snapshot that was written to the cache in that request.
C7_CallbacksGetCachedSnapshot ==
  \A r \in Requests :
    \A i \in Ops(r, CallbackOps) :
      \E j \in Ops(r, {"set"}) : j < i /\ log[r][j].val = log[r][i].val

\* C8: a verified event of an unhandled type is acknowledged with 200 and leaves
\* everything else unchanged: no upstream retrieve, no cache write, no callback.
C8_UnhandledPassthrough ==
  \A r \in Requests :
    (Verified(r) /\ event[r].type \notin HandledTypes) =>
      /\ Ops(r, UpstreamOps \cup {"set"} \cup CallbackOps) = {}
      /\ storage \in InitialStorages
      /\ latestData[r] = NoEntity
      /\ Done(r) => response[r].status = StatusOk

\* C8 witness: payment_intent.succeeded, verified, with callbacks configured, has
\* been acknowledged.
C8_Witness ==
  \E r \in Requests :
    /\ Done(r)
    /\ Verified(r)
    /\ event[r].type = "payment_intent.succeeded"
    /\ response[r] = Acknowledged
    /\ sync = SyncCallbacks
    /\ handlers = HandlerCallbacks

\* C9: a request whose method is not POST is answered 405 before the body is
\* read, the signature is checked, or any provider, upstream or cache call is made.
C9_MethodNotAllowed ==
  \A r \in Requests :
    (pc[r] # "idle" /\ request[r].method # "POST") =>
      /\ Done(r)
      /\ response[r] = Response(StatusMethodNotAllowed, "Method not allowed")
      /\ log[r] = << >>
      /\ event[r] = NoEvent
      /\ storage \in InitialStorages

\* C9 witness: a GET that carries a readable body and a good signature was
\* answered 405.
C9_Witness ==
  \E r \in Requests :
    /\ Done(r)
    /\ request[r] = [method |-> "GET", body |-> "readable", signature |-> "good"]
    /\ response[r].status = StatusMethodNotAllowed

\* C10: for a verified customer.subscription.deleted / .canceled event whose
\* refetch succeeds (and, in the weakest reading, whose cache write is accepted
\* by the store), when the request completes subscription:<id> holds the
\* refetched subscription with a TTL of 86400 s, sync.onSubscriptionCanceled and
\* handlers.onSubscriptionCanceled (each if configured) have been invoked exactly
\* once with it, and the response is 200.
C10_CanceledScenario ==
  \A r \in Requests :
    (/\ Done(r)
     /\ Verified(r)
     /\ event[r].type \in CanceledTypes
     /\ Ops(r, {"retrieve"}) # {}
     /\ Ops(r, {"set"}) # {}) =>
      LET key == "subscription:" \o event[r].data.id
      IN  /\ key \in DOMAIN storage
          /\ storage[key] = [value |-> latestData[r],
                             expiresAt |-> now + CanceledTtl * MsPerSecond]
          /\ "onSubscriptionCanceled" \in sync =>
               Cardinality({i \in Ops(r, {"sync"}) : log[r][i].val = latestData[r]}) = 1
          /\ "onSubscriptionCanceled" \in handlers =>
               Cardinality({i \in Ops(r, {"handler"}) : log[r][i].val = latestData[r]}) = 1
          /\ response[r].status = StatusOk

\* the cache writes of request r, in order
IsSet(e) == e.op = "set"
SetsOf(r) == SelectSeq(log[r], IsSet)
\* the cache entry a write made at the current time with this TTL leaves
EntryNow(value, ttl) == [value |-> value, expiresAt |-> now + ttl * MsPerSecond]

\* C11: for a verified customer.subscription.created / .updated event whose
\* refetch returned S, the cache writes are, in this order, subscription:<S.id> = S
\* and subscription:customer:<S.customerId> = S.id, both with TTL 3600; they are
\* followed by at most one call of sync.onSubscriptionUpdated and at most one call
\* of the matching user handler, both with S; an acknowledged request has made
\* both writes and every configured call.
C11_SubscriptionUpserted ==
  \A r \in Requests :
    (/\ Verified(r)
     /\ event[r].type \in {"customer.subscription.created", "customer.subscription.updated"}
     /\ Ops(r, {"retrieve"}) # {}) =>
      LET S == latestData[r]
          w1 == LogEntry("set", "subscription:" \o S.id, S, SubscriptionTtl)
          w2 == LogEntry("set", "subscription:customer:" \o S.customerId, IdRef(S.id),
                         SubscriptionTtl)
          handler == IF event[r].type = "customer.subscription.created"
                       THEN "onSubscriptionCreated" ELSE "onSubscriptionUpdated"
      IN  /\ SetsOf(r) \in {<< >>, <<w1>>, <<w1, w2>>}
          /\ Cardinality(Ops(r, {"sync"})) <= 1
          /\ Cardinality(Ops(r, {"handler"})) <= 1
          /\ \A i \in Ops(r, {"sync"}) :
               /\ log[r][i] = LogEntry("sync", "onSubscriptionUpdated", S, 0)
               /\ \A j \in Ops(r, {"set"}) : j < i
               /\ Len(SetsOf(r)) = 2
          /\ \A i \in Ops(r, {"handler"}) :
               /\ log[r][i] = LogEntry("handler", handler, S, 0)
               /\ \A j \in Ops(r, {"set", "sync"}) : j < i
               /\ Len(SetsOf(r)) = 2
          /\ response[r] = Acknowledged =>
               /\ SetsOf(r) = <<w1, w2>>
               /\ storage[w1.name] = EntryNow(S, SubscriptionTtl)
               /\ storage[w2.name] = EntryNow(IdRef(S.id), SubscriptionTtl)
               /\ "onSubscriptionUpdated" \in sync <=> Ops(r, {"sync"}) # {}
               /\ handler \in handlers <=> Ops(r, {"handler"}) # {}

\* C11 witness: a subscription-created event was acknowledged after both writes,
\* the sync call and the onSubscriptionCreated call.
C11_Witness ==
  \E r \in Requests :
    /\ response[r] = Acknowledged
    /\ event[r].type = "customer.subscription.created"
    /\ Len(SetsOf(r)) = 2
    /\ \E i \in Ops(r, {"sync"}), j \in Ops(r, {"handler"}) :
         log[r][j].name = "onSubscriptionCreated" /\ i < j
    /\ storage["subscription:customer:cus_1"].value = IdRef("sub_1")

\* the customer retrieves of request r that succeeded
CustomerRetrieves(r) ==
  {i \in Ops(r, {"retrieve"}) : log[r][i].name = "customer"}

\* C12: for a verified checkout.session.completed event whose refetch returned
\* session C, the first cache write is checkout:<C.id> = C with TTL 3600.  Iff C
\* has a customer id the customer K is refetched and customer:<K.id> is written
\* with TTL 86400, customer:email:<K.email> (TTL 86400) only when K.email is not
\* empty and customer:userId:<userId> (TTL 86400) only when K's metadata has a
\* userId; without a customer id there is no customer refetch and no customer:*
\* write.
C12_CheckoutCached ==
  \A r \in Requests :
    (/\ Verified(r)
     /\ event[r].type = "checkout.session.completed"
     /\ Ops(r, {"retrieve"}) # {}) =>
      LET C == latestData[r]
          K == customer[r]
          wCheckout == LogEntry("set", "checkout:" \o C.id, C, CheckoutTtl)
          wCustomer == LogEntry("set", "customer:" \o K.id, K, CustomerTtl)
          wEmail == LogEntry("set", "customer:email:" \o K.email, K, CustomerTtl)
          wUserId == LogEntry("set", "customer:userId:" \o K.userId, IdRef(K.id), CustomerTtl)
          expected == <<wCheckout>>
                      \o (IF C.customerId # None THEN <<wCustomer>> ELSE << >>)
                      \o (IF C.customerId # None /\ K.email # "" THEN <<wEmail>> ELSE << >>)
                      \o (IF C.customerId # None /\ K.userId # None THEN <<wUserId>> ELSE << >>)
          sets == SetsOf(r)
      IN  \* the writes made so far are the first of the expected ones
          /\ Len(sets) > 0 => sets[1] = wCheckout
          /\ Len(sets) > 1 =>
               /\ Len(sets) <= Len(expected)
               /\ sets = SubSeq(expected, 1, Len(sets))
          \* customer refetches and customer:* writes only for a session with a customer
          /\ C.customerId = None =>
               /\ CustomerRetrieves(r) = {}
               /\ Ops(r, {"retrieveFailed"}) = {}
               /\ Len(sets) <= 1
          /\ \A i \in CustomerRetrieves(r) : log[r][i].val.id = C.customerId
          \* the callbacks run only after every expected write has been made
          /\ Ops(r, CallbackOps) # {} => sets = expected
          /\ response[r] = Acknowledged =>
               /\ sets = expected
               /\ \A i \in DOMAIN expected :
                    storage[expected[i].name] = EntryNow(expected[i].val, expected[i].ttl)
               /\ C.customerId # None => CustomerRetrieves(r) # {}

\* C12 witness: an acknowledged checkout whose customer has an email and a userId
\* in its metadata: all four entries written.
C12_Witness ==
  \E r \in Requests :
    /\ response[r] = Acknowledged
    /\ event[r].type = "checkout.session.completed"
    /\ Len(SetsOf(r)) = 4
    /\ storage["customer:userId:u1"] = EntryNow(IdRef("cus_1"), CustomerTtl)
    /\ storage["customer:email:a@x.io"].value = customer[r]

\* ------------------------------------------- the customer-first checkout
\* the positions of the log of call c that hold an effect of one of the kinds ops
CallOps(c, ops) == {i \in DOMAIN checkout[c].log : checkout[c].log[i].op \in ops}
CreatedCustomer(c) == CallOps(c, {"createCustomer"}) # {}
\* the customers created upstream for user id u
CustomersOf(u) == {i \in DOMAIN stripeCustomers : stripeCustomers[i].userId = u}

\* C13: customer-first dedup.  When a createCheckout call that created the
\* customer of a user id has returned its session and a second call with the same
\* user id (whatever its email) is made afterwards, the second call finds the
\* customer id under customer:userId:<userId>, makes no upstream customer
\* creation, and its session carries the same customer id: one customer was
\* created for that user id.
C13_CustomerFirstDedup ==
  \A a \in Calls, b \in Calls :
    (/\ a \in checkout[b].after
     /\ checkout[a].result = Returned
     /\ CreatedCustomer(a)
     /\ checkout[b].options.userId = checkout[a].options.userId) =>
      /\ CallOps(b, {"createCustomer", "createCustomerFailed"}) = {}
      /\ \A i \in CallOps(b, {"get"}) :
           /\ checkout[b].log[i].name = "customer:userId:" \o checkout[a].options.userId
           /\ checkout[b].log[i].val = IdRef(checkout[a].customerId)
      /\ checkout[b].session # NoEntity =>
           checkout[b].session.customerId = checkout[a].session.customerId
      /\ Cardinality(CustomersOf(checkout[a].options.userId)) = 1

\* C13 witness: two calls for u1, the second made after the first returned and
\* with another email, both returned a session.
C13_Witness ==
  \E a \in Calls, b \in Calls :
    /\ a \in checkout[b].after
    /\ checkout[a].result = Returned /\ checkout[b].result = Returned
    /\ CreatedCustomer(a)
    /\ checkout[a].options.userId = "u1" /\ checkout[b].options.userId = "u1"
    /\ checkout[a].options.customerEmail # checkout[b].options.customerEmail
    /\ Len(stripeSessions) = 2

\* C14: a createCheckout call without metadata.userId or without customerEmail
\* fails with PaymentError(INVALID_REQUEST, 400) and has no effect: it makes no
\* cache read, no cache write and no upstream call, and the step that rejects it
\* leaves the cache and the upstream unchanged.
C14_ValidationFirst ==
  /\ [](\A c \in Calls :
          (/\ checkout[c].pc # "idle"
           /\ \/ checkout[c].options.userId = None
              \/ checkout[c].options.customerEmail = None) =>
            /\ checkout[c].pc = "done"
            /\ checkout[c].result = PaymentError("INVALID_REQUEST", StatusBadRequest)
            /\ checkout[c].log = << >>)
  /\ [][\A c \in Calls :
          (/\ checkout[c].pc = "idle"
           /\ checkout'[c].pc # "idle"
           /\ \/ checkout'[c].options.userId = None
              \/ checkout'[c].options.customerEmail = None) =>
            /\ storage' = storage
            /\ stripeCustomers' = stripeCustomers
            /\ stripeSessions' = stripeSessions]_vars

\* C14 witness: a call with a user id but no email was rejected while another
\* call had already populated the cache and the upstream.
C14_Witness ==
  \E c \in Calls :
    /\ checkout[c].pc = "done"
    /\ checkout[c].options.userId = "u1"
    /\ checkout[c].options.customerEmail = None
    /\ checkout[c].result.code = "INVALID_REQUEST"
    /\ Len(stripeCustomers) = 1

\* the first cache.get of call c found nothing
Missed(c) ==
  /\ Len(checkout[c].log) > 0
  /\ checkout[c].log[1].op = "get"
  /\ checkout[c].log[1].val = NoEntity

\* C15: a createCheckout call whose cache.get(customer:userId:<userId>) finds
\* nothing creates one upstream customer with the email and metadata.userId of
\* the request, then stores the new id under customer:userId:<userId> and then
\* under customer:email:<email>, both without expiry; only after both writes is
\* the checkout session created.  The two keys stay in the cache without expiry.
C15_MissCreatesAndCaches ==
  \A c \in Calls :
    Missed(c) =>
      LET L == checkout[c].log
          o == checkout[c].options
          id == L[2].name
          wUserId == CallEntry("set", "customer:userId:" \o o.userId, IdRef(id), NoTtl)
          wEmail == CallEntry("set", "customer:email:" \o o.customerEmail, IdRef(id), NoTtl)
      IN  /\ Cardinality(CallOps(c, {"createCustomer"})) <= 1
          /\ Len(L) >= 2 =>
               /\ L[2].op \in {"createCustomer", "createCustomerFailed"}
               /\ L[2].op = "createCustomer" =>
                    /\ L[2].val = Entity("customer", id, None, None, o.customerEmail, o.userId)
                    /\ \E i \in DOMAIN stripeCustomers : stripeCustomers[i] = L[2].val
               /\ L[2].op = "createCustomerFailed" => Len(L) = 2
          /\ Len(L) >= 3 =>
               /\ L[3] \in {wUserId, [wUserId EXCEPT !.op = "setFailed"]}
               /\ L[3].op = "setFailed" => Len(L) = 3
               /\ L[3].op = "set" =>
                    /\ wUserId.name \in DOMAIN storage
                    /\ storage[wUserId.name].expiresAt = NoExpiry
          /\ Len(L) >= 4 =>
               /\ L[4] \in {wEmail, [wEmail EXCEPT !.op = "setFailed"]}
               /\ L[4].op = "setFailed" => Len(L) = 4
               /\ L[4].op = "set" =>
                    /\ wEmail.name \in DOMAIN storage
                    /\ storage[wEmail.name].expiresAt = NoExpiry
          /\ \A i \in CallOps(c, {"createSession", "createSessionFailed"}) :
               i = 5 /\ L[3] = wUserId /\ L[4] = wEmail

\* C15 witness: a call that missed has returned its session, a day has passed,
\* and both identity entries are still in the cache.
C15_Witness ==
  \E c \in Calls :
    /\ Missed(c)
    /\ checkout[c].result = Returned
    /\ now > CustomerTtl * MsPerSecond
    /\ "customer:userId:u2" \in DOMAIN storage
    /\ storage["customer:userId:u2"] = [value |-> IdRef(checkout[c].customerId),
                                        expiresAt |-> NoExpiry]
    /\ "customer:email:b@x.io" \in DOMAIN storage

\* C16: every checkout session createCheckout creates upstream carries the
\* resolved customer id (the one read from the cache or just created), never
\* customer_email and never the customerId of the request; a call that returns
\* has stored the session under checkout:<sessionId> with TTL 3600 as its last
\* effect; the cache holds an entry under checkout:<id> only for a session that
\* was created, so a failed creation writes nothing under checkout:*.
C16_SessionUsesResolvedCustomer ==
  /\ \A c \in Calls :
       LET L == checkout[c].log
           resolved == IF CreatedCustomer(c) THEN L[2].name ELSE L[1].val.id
       IN  /\ \A i \in CallOps(c, {"createSession"}) :
                /\ L[i].val.customerId = resolved
                /\ resolved # None
                /\ L[i].val.email = ""
                /\ L[i].val.userId = checkout[c].options.userId
                /\ \E n \in DOMAIN stripeSessions : stripeSessions[n] = L[i].val
           /\ checkout[c].result = Returned =>
                /\ checkout[c].session.customerId = resolved
                /\ L[Len(L)] = CallEntry("set", "checkout:" \o checkout[c].session.id,
                                         checkout[c].session, Seconds(CheckoutTtl))
                /\ storage["checkout:" \o checkout[c].session.id].value = checkout[c].session
                /\ storage["checkout:" \o checkout[c].session.id].expiresAt
                     \in {t + CheckoutTtl * MsPerSecond :
                            t \in {MsPerSecond + d * CustomerTtl * MsPerSecond : d \in 0..nticks}}
           /\ CallOps(c, {"createSessionFailed"}) # {} =>
                \A i \in CallOps(c, {"set", "setFailed"}) :
                  L[i].name \in {"customer:userId:" \o checkout[c].options.userId,
                                 "customer:email:" \o checkout[c].options.customerEmail}
  /\ \A n \in 1..Cardinality(Calls) :
       ("checkout:" \o NewSessionId(n)) \in DOMAIN storage =>
          /\ n <= Len(stripeSessions)
          /\ storage["checkout:" \o NewSessionId(n)].value = stripeSessions[n]

\* C16 witness: a request that supplied its own customerId and an email got a
\* session for the customer created for its user id, and the session is cached.
C16_Witness ==
  \E c \in Calls :
    /\ checkout[c].result = Returned
    /\ checkout[c].options.customerId = "cus_req"
    /\ checkout[c].options.customerEmail = "a@x.io"
    /\ checkout[c].session.customerId = "cus_n1"
    /\ ("checkout:" \o checkout[c].session.id) \in DOMAIN storage

\* ----------------------------------------------------------- the adapters
\* the deadline of the client's last set of a key, and what the interface says a
\* get returns at time t given what the client did last with the key
Deadline(h) == h.at + h.seconds * MsPerSecond
Live(h, t) == h.state = "set" /\ (h.seconds = 0 \/ t <= Deadline(h))
ExpectedGet(h, t) == IF Live(h, t) THEN h.value ELSE None

\* C17: in the memory adapter, whatever sets, gets, deletes, sweeps and time
\* advances came before, a get of k returns the value of the most recent set of k
\* if k has not been deleted since and has not expired, and null otherwise; a
\* set made twice in a row leaves the store as the set made once does.
C17_GetReturnsLastSet ==
  /\ [](adapter = "memory" =>
          /\ \A k \in Keys :
               MemoryGetValue(storage, k, now, None) = ExpectedGet(history[k], now)
          /\ \A a \in SetArgs :
               LET once == MemorySet(storage, a.key, a.value, a.ttl, now)
               IN  MemorySet(once, a.key, a.value, a.ttl, now) = once)
  /\ [][\A k \in Keys :
          MemGet(k) => lastOp' = [key |-> k, result |-> ExpectedGet(history[k], now)]]_vars

\* C17 witness: k1 was overwritten, k2 was deleted, time has passed, and the last
\* get returned the second value of k1.
C17_Witness ==
  /\ adapter = "memory"
  /\ history["k1"].state = "set" /\ history["k1"].over # "nothing"
  /\ history["k1"].value = "v2"
  /\ history["k2"].state = "deleted"
  /\ now > history["k1"].at
  /\ lastOp = [key |-> "k1", result |-> "v2"]

\* C18: an entry set with ttlSeconds omitted, zero or negative is permanent.  In
\* the memory adapter it is stored without expiry and stays in the store, with
\* its value, through reads, sweeps and time, until it is set again or deleted.
\* The Upstash adapter passes ex = ttlSeconds to redis.set exactly when
\* ttlSeconds > 0 and no expiry option otherwise.
C18_NoTtlIsPermanent ==
  /\ \A k \in Keys :
       (adapter = "memory" /\ history[k].state = "set" /\ history[k].seconds = 0) =>
         /\ k \in DOMAIN storage
         /\ storage[k] = [value |-> history[k].value, expiresAt |-> NoExpiry]
         /\ MemorySweep(storage, now)[k] = storage[k]
         /\ MemoryGetStore(storage, k, now) = storage
  /\ \A i \in DOMAIN redisCalls :
       LET call == redisCalls[i]
       IN  /\ call.options.withEx <=> (call.ttl.given /\ call.ttl.seconds > 0)
           /\ call.options.withEx => call.options.ex = call.ttl.seconds

\* C18 witness: a permanent entry has outlived a period of the cleanup interval,
\* a sweep and a get that returned it.
C18_Witness ==
  /\ adapter = "memory"
  /\ history["k1"].state = "set" /\ history["k1"].seconds = 0
  /\ now >= history["k1"].at + SweepIntervalMs
  /\ nextSweep > now
  /\ lastOp = [key |-> "k1", result |-> history["k1"].value]
  /\ "k1" \in DOMAIN storage

\* C19: in the memory adapter an entry set at time t with ttlSeconds = n > 0 is
\* returned by get at every time up to t + n seconds, the deadline included, and
\* is absent at every later time: a get after the deadline returns null and
\* removes the entry, whether or not a sweep ran before it.
C19_ExpiryAtDeadline ==
  /\ [](\A k \in Keys :
          (adapter = "memory" /\ history[k].state = "set" /\ history[k].seconds > 0) =>
            IF now <= Deadline(history[k])
              THEN /\ k \in DOMAIN storage
                   /\ MemoryGetValue(storage, k, now, None) = history[k].value
              ELSE MemoryGetValue(storage, k, now, None) = None)
  /\ [][\A k \in Keys :
          (/\ MemGet(k)
           /\ history[k].state = "set" /\ history[k].seconds > 0
           /\ now > Deadline(history[k])) =>
            /\ lastOp'.result = None
            /\ k \notin DOMAIN storage']_vars

\* C19 witness: no sweep has run, the deadline of k1 has passed, and the get
\* that returned null has removed the entry.
C19_Witness ==
  /\ adapter = "memory"
  /\ history["k1"].state = "set" /\ history["k1"].seconds > 0
  /\ now > Deadline(history["k1"])
  /\ nextSweep = MsPerSecond + SweepIntervalMs
  /\ lastOp = [key |-> "k1", result |-> None]
  /\ "k1" \notin DOMAIN storage

\* C20: overwriting a key replaces its TTL wholesale: the expiry of a stored
\* entry is the one given by the time and ttlSeconds of the last set alone, and
\* an entry that replaced an expiring one with no ttlSeconds (omitted, zero or
\* negative) has no expiry.
C20_OverwriteReplacesTtl ==
  \A k \in Keys :
    (adapter = "memory" /\ history[k].state = "set") =>
      /\ k \in DOMAIN storage =>
           storage[k].expiresAt =
             IF history[k].seconds > 0 THEN Deadline(history[k]) ELSE NoExpiry
      /\ (history[k].over = "expiring" /\ history[k].seconds = 0) =>
           /\ k \in DOMAIN storage
           /\ storage[k].expiresAt = NoExpiry
      /\ (history[k].over # "nothing" /\ Live(history[k], now)) =>
           MemoryGetValue(storage, k, now, None) = history[k].value

\* C20 witness: k1 had a TTL, was set again without one, and is still returned a
\* sweep period later, long after the first deadline.
C20_Witness ==
  /\ adapter = "memory"
  /\ history["k1"].state = "set" /\ history["k1"].over = "expiring"
  /\ history["k1"].seconds = 0
  /\ now >= history["k1"].at + SweepIntervalMs
  /\ lastOp = [key |-> "k1", result |-> history["k1"].value]

\* C21: delete is idempotent in the memory adapter.  Deleting a key, present or
\* absent, removes that key and nothing else; after it get of the key returns
\* null, a second delete leaves the store as it is, and a later set(k, v) makes
\* get(k) return v.
C21_DeleteIdempotent ==
  /\ [](adapter = "memory" =>
          \A k \in Keys :
            LET deleted == MemoryDelete(storage, k)
            IN  /\ DOMAIN deleted = DOMAIN storage \ {k}
                /\ \A j \in DOMAIN deleted : deleted[j] = storage[j]
                /\ MemoryGetValue(deleted, k, now, None) = None
                /\ MemoryDelete(deleted, k) = deleted
                /\ \A a \in SetArgs :
                     MemoryGetValue(MemorySet(deleted, a.key, a.value, a.ttl, now),
                                    a.key, now, None) = a.value
                /\ history[k].state = "deleted" => k \notin DOMAIN storage)
  /\ [][\A k \in Keys :
          MemDelete(k) =>
            /\ k \notin DOMAIN storage'
            /\ \A j \in Keys \ {k} :
                 /\ j \in DOMAIN storage' <=> j \in DOMAIN storage
                 /\ j \in DOMAIN storage => storage'[j] = storage[j]
            /\ k \notin DOMAIN storage => storage' = storage]_vars

\* C21 witness: k1 was set and then deleted, the get after the delete returned
\* null, and k2, which was not deleted, is still stored with its value.
C21_Witness ==
  /\ adapter = "memory"
  /\ history["k1"].state = "deleted"
  /\ lastOp = [key |-> "k1", result |-> None]
  /\ history["k2"].state = "set"
  /\ "k2" \in DOMAIN storage
  /\ storage["k2"].value = history["k2"].value

\* the last operation of the client of the Upstash adapter was op on key k
LastUpstash(op, k) ==
  /\ adapter = "upstash"
  /\ redisCalls # << >>
  /\ redisCalls[1].op = op
  /\ redisCalls[1].key = k

\* C22: Upstash adapter round trip.  When the last operation on k is a get that
\* the store answered, and the client's last change of k was set(k, v), the get
\* returned a value equal to v, of the type of v: a string comes back as the same
\* string, a number, boolean or object as the same number, boolean or object.
C22_UpstashRoundTrip ==
  \A k \in Keys :
    (/\ LastUpstash("get", k)
     /\ lastOp.result.type # "error"
     /\ history[k].state = "set") =>
      lastOp.result = history[k].value

\* C23: when the call of the Redis client fails, the Upstash adapter's get, set
\* and delete reject with an error whose message is "Failed to <operation> key
\* "<key>" ...", and the failed operation leaves the store as it was; whatever
\* text the store holds, decoding it yields a value and never an error.
C23_UpstashWrapsErrors ==
  /\ [](adapter = "upstash" =>
          /\ \A op \in {"get", "set", "del"}, k \in Keys :
               (LastUpstash(op, k) /\ lastOp.result.type = "error") =>
                 /\ lastOp.key = k
                 /\ lastOp.result.repr =
                      ((("Failed to " \o (IF op = "del" THEN "delete" ELSE op)) \o " key \"")
                         \o k) \o "\""
          /\ \A k \in DOMAIN storage :
               Deserialize(storage[k].value).type
                 \in {"string", "number", "boolean", "object", "null"})
  /\ [][(adapter = "upstash" /\ lastOp' # lastOp /\ lastOp'.result.type = "error")
          => storage' = storage]_vars

\* C23 witness: the store holds text that is not JSON under k1 and the get of k1
\* was rejected with the wrapping error.
C23_Witness ==
  /\ LastUpstash("get", "k1")
  /\ "k1" \in DOMAIN storage
  /\ storage["k1"].value = "hello"
  /\ lastOp = [key |-> "k1", result |-> [type |-> "error", repr |-> "Failed to get key \"k1\""]]

\* C24: the secrets are validated at construction, so a constructed provider
\* never fails verifyWebhook for want of a well-formed webhook secret: whenever
\* verifyWebhook has thrown on a request signed with the endpoint's secret, the
\* provider's webhook secret is present and starts with whsec_.
C24_SecretsValidatedEagerly ==
  \A r \in Requests :
    (VerifyFailed(r) /\ request[r].signature = "good") =>
      validateWebhookSecret(provider.webhookSecret, TRUE) = "ok"

\* the kind of the value held under key, "none" when the key is absent
KindAt(key) == IF key \in DOMAIN storage THEN storage[key].value.kind ELSE None

\* C25: each key namespace holds one shape of value whichever operation wrote it
\* last: customer:email:<email> holds a Customer snapshot, customer:userId:<userId>
\* a customer id, customer:<id> a Customer snapshot, checkout:<id> a CheckoutSession.
C25_OneShapePerNamespace ==
  /\ \A e \in Emails : KindAt("customer:email:" \o e) \in {None, "customer"}
  /\ \A u \in CheckoutUserIds : KindAt("customer:userId:" \o u) \in {None, "id"}
  /\ \A n \in 1..2 : KindAt("customer:" \o NewCustomerId(n)) \in {None, "customer"}
  /\ \A n \in 1..2 : KindAt("checkout:" \o NewSessionId(n)) \in {None, "checkout"}

\* the keys under which the handler writes the refetched entity itself
EntityKeys == {"checkout:cs_1", "customer:cus_1", "subscription:sub_1"}
\* the positions of the log of r where r wrote key
WritesOf(r, key) == {i \in Ops(r, {"set"}) : log[r][i].name = key}
\* delivery r has written the entry that key holds now
HoldsWriteOf(r, key) ==
  \E i \in WritesOf(r, key) :
    /\ storage[key] = StorageEntry(log[r][i].val, log[r][i].ttl)
    /\ key \in EntityKeys =>
         \E j \in Ops(r, {"retrieve"}) : j < i /\ log[r][j].val = log[r][i].val

\* C26: with two deliveries in flight at once, each refetches and writes for
\* itself; a delivery that ran to its end is acknowledged with 200; every write
\* replaces the whole entry under its key with the writer's snapshot and leaves
\* the other keys alone, so the entry of an entity is always the snapshot one
\* delivery refetched and wrote, and the later write is the one that stays.
C26_LastWriteWins ==
  /\ [](\A r \in Requests :
          (Done(r) /\ Verified(r) /\ Ops(r, {"throw"}) = {}) => response[r] = Acknowledged)
  /\ [](\A key \in DOMAIN storage : \E r \in Requests : HoldsWriteOf(r, key))
  /\ [][\A r \in Requests :
          (Len(log'[r]) = Len(log[r]) + 1 /\ log'[r][Len(log'[r])].op = "set") =>
             LET e == log'[r][Len(log'[r])]
             IN  /\ storage'[e.name] = StorageEntry(e.val, e.ttl)
                 /\ \A k \in DOMAIN storage \ {e.name} : storage'[k] = storage[k]]_vars

\* C26 witness: both deliveries were about sub_1, refetched different snapshots,
\* wrote them and were acknowledged; the cache holds the snapshot of r2 although
\* r1 was received with the upstream state r2's snapshot does not have.
C26_Witness ==
  /\ \A r \in Requests : Done(r) /\ response[r] = Acknowledged
  /\ \E i \in WritesOf("r1", "subscription:sub_1"), j \in WritesOf("r2", "subscription:sub_1") :
       /\ log["r1"][i].val # log["r2"][j].val
       /\ storage["subscription:sub_1"].value = log["r2"][j].val

\* C27: on every path past the method and signature checks, the failed ones
\* included, the response is 200 with the body {"received": true} and no other
\* field: a request whose event was verified is answered exactly Acknowledged.
C27_BodyExactlyReceived ==
  \A r \in Requests :
    (Done(r) /\ Verified(r)) => response[r] = Acknowledged

\* C28: the response does not wait for the sync adapter: a delivery whose event
\* was verified is answered even when the promise of the sync callback never
\* settles.
C28_ResponseDoesNotAwaitSync ==
  \A r \in Deliveries : Verified(r) ~> Done(r)

\* the email key of the createCustomer call c
EmailKey(c) == "customer:email:" \o checkout[c].options.customerEmail
\* the first lookup of call c, by email, was answered with an entry / with nothing
EmailHit(c) ==
  /\ Len(checkout[c].log) >= 1
  /\ checkout[c].log[1].op = "get"
  /\ checkout[c].log[1].val # NoEntity
EmailMiss(c) ==
  /\ Len(checkout[c].log) >= 1
  /\ checkout[c].log[1] = CallEntry("get", EmailKey(c), NoEntity, NoTtl)

\* C29: createCustomer is cache-first.  When customer:email:<email> holds an
\* entry the call returns that entry, creates nothing upstream and writes nothing
\* to the cache; a customer is created upstream only after a miss on that key;
\* and a call that created a customer and returned has then stored the customer
\* under customer:<id> and customer:email:<email>, and its id under
\* customer:userId:<userId> when the data carries a userId, in that order.
C29_CreateCustomerCacheFirst ==
  /\ [](\A c \in Calls :
          /\ EmailHit(c) =>
               /\ checkout[c].log = <<CallEntry("get", EmailKey(c), checkout[c].returned, NoTtl)>>
               /\ checkout[c].pc = "done"
               /\ checkout[c].result = ReturnedCustomer
          /\ \A i \in DOMAIN checkout[c].log :
               checkout[c].log[i].op = "createCustomer" =>
                 /\ EmailMiss(c)
                 /\ checkout[c].log[i].val.email = checkout[c].options.customerEmail
                 /\ checkout[c].result = ReturnedCustomer =>
                      LET created == checkout[c].log[i].val
                          userId == checkout[c].options.userId
                          day == Seconds(CustomerTtl)
                          stores ==
                            <<CallEntry("set", "customer:" \o created.id, created, day),
                              CallEntry("set", EmailKey(c), created, day)>>
                            \o (IF userId = None THEN << >>
                                ELSE <<CallEntry("set", "customer:userId:" \o userId,
                                                 IdRef(created.id), day)>>)
                      IN  /\ checkout[c].returned = created
                          /\ SubSeq(checkout[c].log, i + 1, Len(checkout[c].log)) = stores)
  /\ [][\A c \in Calls :
          (~EmailHit(c) /\ EmailHit(c)') =>
             /\ storage' = storage
             /\ stripeCustomers' = stripeCustomers]_vars

\* C29 witness: c1 missed on customer:email:b@x.io, created the customer and
\* stored it under the three keys; c2, called afterwards with the same email,
\* got c1's customer from the cache and no second customer was created.
C29_Witness ==
  /\ checkout["c1"].options = [userId |-> "u1", customerEmail |-> "b@x.io", customerId |-> None]
  /\ checkout["c1"].result = ReturnedCustomer
  /\ \E i \in DOMAIN checkout["c1"].log : checkout["c1"].log[i].op = "createCustomer"
  /\ "c1" \in checkout["c2"].after
  /\ EmailHit("c2")
  /\ checkout["c2"].returned = checkout["c1"].returned
  /\ Len(stripeCustomers) = 1
  /\ storage["customer:email:b@x.io"].value = checkout["c1"].returned

\* C30: a StripeProvider without a webhook secret rejects every verifyWebhook
\* call with WebhookError whatever the signature, so the handler built on it
\* answers every POST that carries a signature with 401 and makes no refetch, no
\* cache write and no callback.
C30_FailClosedWithoutSecret ==
  /\ \A signature \in {None, "good", "bad"} :
       StripeProviderVerifyWebhook(signature, None) = "WebhookError"
  /\ \A r \in Requests :
       (/\ provider = [kind |-> "StripeProvider", webhookSecret |-> None]
        /\ Done(r)
        /\ request[r].method = "POST"
        /\ request[r].signature # None) =>
          /\ response[r].status = StatusUnauthorized
          /\ Ops(r, {"retrieve", "retrieveFailed", "set", "sync", "handler"}) = {}

\* C31: every session created through the customer-first flow carries the
\* external user id in the session metadata, and, when the session is a
\* subscription (mode omitted or "subscription"), in the subscription metadata
\* sent upstream, whatever the trial period.
C31_UserIdInMetadata ==
  sessionParams.built =>
    /\ sessionParams.params.metadata.userId = sessionParams.request.userId
    /\ sessionParams.params.mode = "subscription" =>
         /\ sessionParams.params.subscription_data.given
         /\ sessionParams.params.subscription_data.userId = sessionParams.request.userId

\* the number of cache writes the branch of the event of r makes, given what
\* the refetches returned
ExpectedWrites(r) ==
  IF event[r].type = "checkout.session.completed"
    THEN 1 + (IF latestData[r].customerId = None THEN 0
              ELSE (1 + (IF customer[r].email = "" THEN 0 ELSE 1))
                     + (IF customer[r].userId = None THEN 0 ELSE 1))
  ELSE IF event[r].type \in CanceledTypes THEN 1
  ELSE 2
\* position k of the log of r is the throw of a failed refetch or cache write
RefetchOrWriteFailed(r, k) ==
  /\ log[r][k].op = "throw"
  /\ k > 1
  /\ log[r][k - 1].op \in {"retrieve", "retrieveFailed", "set"}

\* C32: write-through before notify.  A sync callback or user handler is invoked
\* only after every refetch and every cache write of the event has succeeded: no
\* refetch and no write follows a callback, and all the writes of the branch
\* precede it.  When a refetch or a cache write fails, no callback is invoked
\* and the request is answered 200.
C32_WriteThroughBeforeNotify ==
  \A r \in Requests :
    /\ \A i \in Ops(r, {"sync", "handler"}) :
         /\ \A j \in Ops(r, {"retrieve", "retrieveFailed", "set"}) : j < i
         /\ Cardinality(Ops(r, {"set"})) = ExpectedWrites(r)
    /\ \A k \in DOMAIN log[r] :
         RefetchOrWriteFailed(r, k) =>
           /\ Ops(r, CallbackOps) = {}
           /\ Done(r)
           /\ response[r].status = StatusOk

\* C32 witness: a completed checkout whose customer was deleted upstream, with
\* sync adapter and user handler configured: the session was cached, the fetch of
\* the customer failed, no callback ran and the answer is 200.
C32_Witness ==
  \E r \in Requests :
    /\ Done(r)
    /\ event[r].type = "checkout.session.completed"
    /\ "onCustomerCreated" \in sync /\ "onCheckoutComplete" \in handlers
    /\ upCustomer["cus_1"].deleted
    /\ \E k \in DOMAIN log[r] :
         RefetchOrWriteFailed(r, k) /\ log[r][k - 1] = LogEntry("retrieveFailed", "customer", NoEntity, 0)
    /\ Ops(r, {"set"}) # {}
    /\ Ops(r, CallbackOps) = {}
    /\ response[r].status = StatusOk

\* operation o took a step after it was started
StepOf(o) == hookOps[o].pc \in {"fetch", "json", "errorJson"} /\ hookOps'[o] # hookOps[o]
\* what a component sees of the hook, the callbacks it received and the page
Observable == <<hook.value, hook.error, hook.isLoading, hookLog, location>>

\* C33: hook cancellation.  A step of an operation whose controller has been
\* aborted changes neither session / subscription / customer, error and
\* isLoading nor invokes a callback; and an operation whose completion does
\* change them is the most recently started one.
C33_AbortedNeverApplies ==
  [][\A o \in OpIds :
       StepOf(o) =>
         /\ hookOps[o].aborted => Observable' = Observable
         /\ Observable' # Observable => (o = hook.started /\ ~hookOps[o].aborted)]_vars

\* C34: checkout end to end.  When the last checkout() of a useCheckout hook got
\* the answer createCheckoutHandler gives for a created session and has run to
\* its end without being aborted, the hook holds that session with error = null
\* and isLoading = false, the page was sent to the session's url and onSuccess
\* was invoked exactly once with the session.
C34_CheckoutEndToEnd ==
  \A o \in OpIds :
    (/\ hook.kind = "useCheckout"
     /\ o = hook.started
     /\ hookOps[o].name = "checkout"
     /\ hookOps[o].pc = "done"
     /\ ~hookOps[o].aborted
     /\ hookOps[o].response = CreateCheckoutResponse(HookSession)) =>
       /\ hook.value = HookSession
       /\ hook.error = None
       /\ ~hook.isLoading
       /\ location = UrlOf(HookSession.id)
       /\ Cardinality({i \in DOMAIN hookLog :
                         hookLog[i] = HookCallback(o, "onSuccess", HookSession, None)}) = 1

\* the times at which a client may read next: now, or after one more advance
ReadTimes == {now} \cup {now + d : d \in TickDurations}

\* C35: a run of the memory adapter's cleanup interval removes exactly the
\* entries whose deadline is in the past and leaves every other entry as it was,
\* and no get can tell whether it ran: for every key, a get made now or at any
\* later time returns the same value from the swept store as from the store
\* before the sweep.
C35_SweepUnobservable ==
  [][Sweep =>
       /\ DOMAIN storage' \subseteq DOMAIN storage
       /\ \A k \in DOMAIN storage :
            IF history[k].seconds > 0 /\ Deadline(history[k]) < now
              THEN k \notin DOMAIN storage'
              ELSE k \in DOMAIN storage' /\ storage'[k] = storage[k]
       /\ \A k \in Keys : \A t \in ReadTimes :
            MemoryGetValue(storage', k, t, None) = MemoryGetValue(storage, k, t, None)]_vars

\* C35 witness: a sweep has run (the interval was re-armed) and left the store
\* with an expiring entry that is exactly at its deadline, after removing an
\* entry whose deadline had passed.
C35_Witness ==
  /\ adapter = "memory"
  /\ nextSweep = now + SweepIntervalMs
  /\ "k1" \in DOMAIN storage
  /\ storage["k1"].expiresAt = now
  /\ history["k2"].state = "set" /\ history["k2"].seconds > 0
  /\ Deadline(history["k2"]) < now
  /\ "k2" \notin DOMAIN storage

\* the customers call c created upstream
CreatedBy(c) ==
  {checkout[c].log[i].name : i \in {j \in DOMAIN checkout[c].log :
                                     checkout[c].log[j].op = "createCustomer"}}

\* C36: two createCheckout calls for the same user id that overlap (neither had
\* returned when the other began) and started on an empty cache create at most
\* one customer upstream between them, and when both return, their sessions are
\* for the same customer.
C36_ConcurrentCheckoutOneCustomer ==
  \A a, b \in Calls :
    (/\ a # b
     /\ checkout[a].pc # "idle" /\ checkout[b].pc # "idle"
     /\ checkout[a].options.userId = "u2" /\ checkout[b].options.userId = "u2"
     /\ a \notin checkout[b].after /\ b \notin checkout[a].after
     /\ "customer:userId:u1" \notin DOMAIN storage) =>
       /\ Cardinality(CreatedBy(a) \cup CreatedBy(b)) <= 1
       /\ (checkout[a].result = Returned /\ checkout[b].result = Returned) =>
            checkout[a].session.customerId = checkout[b].session.customerId

\* C37: the identity mapping createCheckout stored (customer:userId:<u>, written
\* without expiry) is durable: no step of a createCustomer call and no passage
\* of time changes what a read of the key returns, at the time of the step or
\* more than a day later.
C37_IdentityMappingDurable ==
  [][\A u \in UserIds :
       LET k == "customer:userId:" \o u
       IN  (k \in DOMAIN storage /\ storage[k].expiresAt = NoExpiry) =>
             \A t \in {now', now' + CustomerTtl * MsPerSecond + 1} :
               MemoryGetValue(storage', k, t, NoEntity) = storage[k].value]_vars

\* C38: the secondary index never dangles.  Whenever a get of
\* subscription:customer:<c> returns a subscription id s, a get of
\* subscription:<s> made at the same time returns a subscription of customer c.
C38_IndexNeverDangles ==
  \A c \in CustomerIds :
    LET ref == MemoryGetValue(storage, "subscription:customer:" \o c, now, NoEntity)
    IN  ref # NoEntity =>
          LET sub == MemoryGetValue(storage, "subscription:" \o ref.id, now, NoEntity)
          IN  sub # NoEntity /\ sub.customerId = c

\* C39: a handler built on a provider whose construction succeeded refetches
\* whatever the environment holds.  With no STRIPE_SECRET_KEY in the environment
\* (the provider got its key through its config option), every verified request
\* of a handled event type that has been answered made the call that retrieves
\* the entity from the provider.
C39_RefetchWithConfiguredProvider ==
  \A r \in Requests :
    (/\ env = None
     /\ provider \in ConstructedProviders
     /\ Done(r)
     /\ Verified(r)
     /\ event[r].type \in HandledTypes) =>
       Ops(r, {"retrieve", "retrieveFailed"}) # {}
====
